---- MODULE Spec2Model ----
(***************************************************************************)
(* A state-machine model of neuralop's spectral convolution               *)
(* (src/neuralop/layers/spectral_convolution.py): the n_modes property,   *)
(* the constructor's validation, the contraction dispatch, the einsum     *)
(* contractions and the index arithmetic of SpectralConv.forward.         *)
(*                                                                         *)
(* Python values are modelled as follows.                                  *)
(*   - an optional value is a sequence of length 0 (None) or 1;           *)
(*   - a list or tuple is a sequence; Python index i is TLA+ index i+1;   *)
(*   - a str that the code inspects (weight.name) is a sequence of        *)
(*     one-character strings; a str only compared for equality is a       *)
(*     TLA+ string;                                                        *)
(*   - a tensor is a function from index tuples (1-based) to integers;    *)
(*   - a spectrum is a function from 0-based index tuples to cells: a     *)
(*     cell is Zero or names the input coefficient and the weight entry   *)
(*     whose product it holds.                                             *)
(***************************************************************************)
EXTENDS Integers, Sequences, FiniteSets, TLC

VARIABLES
    layer,      \* the SpectralConv object, once its constructor has returned
    ctor,       \* the constructor call: the statements it ran and its error
    call,       \* the call in progress on the layer (constructor, n_modes setter, forward)
    dispatch,   \* the last direct call of get_contract_fun
    ct,         \* the last pair of contractions of one activation and weight
    trainer     \* the Trainer object and the position of its train call

vars == <<layer, ctor, call, dispatch, ct, trainer>>

(***************************************************************************)
(* Bounds of the model.                                                    *)
(***************************************************************************)
\* largest mode count requested for one axis
MaxModes == 3
\* largest spatial size of an input along one axis
MaxSize == 4
\* the batch size of the inputs
BatchSize == 2
\* largest seed of the test tensors
MaxSeed == 3
\* largest number of spatial axes of a contracted activation
MaxAxes == 2
\* largest n_epochs of a Trainer
MaxEpochs == 3
\* the sizes of an axis (batch, channel, mode or rank) of a contracted tensor
Dims == {1, 2}

(***************************************************************************)
(* Python helpers.                                                         *)
(***************************************************************************)
None == <<>>

Some(v) == <<v>>

IsNone(o) == o = <<>>

Min(a, b) == IF a <= b THEN a ELSE b

Max(a, b) == IF a >= b THEN a ELSE b

\* Python's a // b (floor division) for b > 0
FloorDiv(a, b) == a \div b

\* slice(start, stop): start and stop are optional integers
Slice(start, stop) == [start |-> start, stop |-> stop]

\* slice.indices(len) for step 1: the half-open range [lo, hi) of 0-based indices
SliceLo(s, len) ==
    IF IsNone(s.start) THEN 0
    ELSE IF s.start[1] < 0 THEN Max(s.start[1] + len, 0)
    ELSE Min(s.start[1], len)

SliceHi(s, len) ==
    IF IsNone(s.stop) THEN len
    ELSE IF s.stop[1] < 0 THEN Max(s.stop[1] + len, 0)
    ELSE Min(s.stop[1], len)

SliceLen(s, len) == Max(SliceHi(s, len) - SliceLo(s, len), 0)

\* the indices a slice selects on an axis of length len
SliceIdx(s, len) == {i \in 0 .. len - 1 : SliceLo(s, len) <= i /\ i < SliceHi(s, len)}

(***************************************************************************)
(* Strings the code inspects character by character.                       *)
(***************************************************************************)
\* str.lower() on the letters that occur in weight names
LowerChar(c) ==
    CASE c = "B" -> "b" [] c = "C" -> "c" [] c = "D" -> "d" [] c = "K" -> "k"
      [] c = "P" -> "p" [] c = "T" -> "t" [] c = "U" -> "u" [] c = "X" -> "x"
      [] OTHER -> c

Lower(s) == [i \in 1 .. Len(s) |-> LowerChar(s[i])]

\* str.endswith
EndsWith(s, suffix) ==
    /\ Len(suffix) <= Len(s)
    /\ SubSeq(s, Len(s) - Len(suffix) + 1, Len(s)) = suffix

StrDense == <<"D", "e", "n", "s", "e">>

StrTucker == <<"T", "u", "c", "k", "e", "r">>

StrTT == <<"T", "T">>

StrCP == <<"C", "P">>

StrComplex == <<"C", "o", "m", "p", "l", "e", "x">>

StrBlock == <<"B", "l", "o", "c", "k">>

StrMadeUp == <<"m", "a", "d", "e", "_", "u", "p", "_", "k", "i", "n", "d">>

StrTuckerX == <<"T", "u", "c", "k", "e", "r", "X">>

(***************************************************************************)
(* Errors.  An error is the exception's type, the statement that raised   *)
(* it and the values its message is formatted from.                        *)
(***************************************************************************)
NoError == [type |-> "", site |-> "", args |-> <<>>]

ValueError(site, args) == [type |-> "ValueError", site |-> site, args |-> args]

(***************************************************************************)
(* get_contract_fun.  A weight is its class and, for a FactorizedTensor,   *)
(* its name.  The result is the chosen function or the error raised.       *)
(***************************************************************************)
Returned(f) == [fun |-> f, error |-> NoError]

Raised(e) == [fun |-> "", error |-> e]

\* mutant: the implementation string is not validated and falls back to dense
get_contract_fun_nocheck(weight, implementation, separable) ==
    IF separable THEN Returned("_contract_dense_separable") ELSE Returned("_contract_dense")

\* mutant: an unrecognised factorized weight falls back to the dense contraction
get_contract_fun_fallback(weight, implementation, separable) ==
    IF implementation = "reconstructed"
    THEN IF separable THEN Returned("_contract_dense_separable") ELSE Returned("_contract_dense")
    ELSE IF implementation = "factorized"
    THEN IF weight.class = "Tensor" THEN Returned("_contract_dense")
         ELSE IF weight.class = "FactorizedTensor"
         THEN IF EndsWith(Lower(weight.name), Lower(StrTucker)) THEN Returned("_contract_tucker")
              ELSE IF EndsWith(Lower(weight.name), Lower(StrTT)) THEN Returned("_contract_tt")
              ELSE IF EndsWith(Lower(weight.name), Lower(StrCP)) THEN Returned("_contract_cp")
              ELSE Returned("_contract_dense")
         ELSE Raised(ValueError("unexpected weight type of class", <<weight.class>>))
    ELSE Raised(ValueError("implementation", <<implementation>>))

\* mutant: the TT and CP contractions are exchanged
get_contract_fun_swapped(weight, implementation, separable) ==
    IF implementation = "reconstructed"
    THEN IF separable THEN Returned("_contract_dense_separable") ELSE Returned("_contract_dense")
    ELSE IF implementation = "factorized"
    THEN IF weight.class = "Tensor" THEN Returned("_contract_dense")
         ELSE IF weight.class = "FactorizedTensor"
         THEN IF EndsWith(Lower(weight.name), Lower(StrDense)) THEN Returned("_contract_dense")
              ELSE IF EndsWith(Lower(weight.name), Lower(StrTucker)) THEN Returned("_contract_tucker")
              ELSE IF EndsWith(Lower(weight.name), Lower(StrTT)) THEN Returned("_contract_cp")
              ELSE IF EndsWith(Lower(weight.name), Lower(StrCP)) THEN Returned("_contract_tt")
              ELSE Raised(ValueError("unexpected factorized weight type", <<weight.name>>))
         ELSE Raised(ValueError("unexpected weight type of class", <<weight.class>>))
    ELSE Raised(ValueError("implementation", <<implementation>>))

get_contract_fun(weight, implementation, separable) ==
    IF implementation = "reconstructed"
    THEN IF separable THEN Returned("_contract_dense_separable") ELSE Returned("_contract_dense")
    ELSE IF implementation = "factorized"
    THEN IF weight.class = "Tensor" THEN Returned("_contract_dense")
         ELSE IF weight.class = "FactorizedTensor"
         THEN IF EndsWith(Lower(weight.name), Lower(StrDense)) THEN Returned("_contract_dense")
              ELSE IF EndsWith(Lower(weight.name), Lower(StrTucker)) THEN Returned("_contract_tucker")
              ELSE IF EndsWith(Lower(weight.name), Lower(StrTT)) THEN Returned("_contract_tt")
              ELSE IF EndsWith(Lower(weight.name), Lower(StrCP)) THEN Returned("_contract_cp")
              ELSE Raised(ValueError("unexpected factorized weight type", <<weight.name>>))
         ELSE Raised(ValueError("unexpected weight type of class", <<weight.class>>))
    ELSE Raised(ValueError("implementation", <<implementation>>))

(***************************************************************************)
(* The n_modes property.                                                   *)
(***************************************************************************)
\* a requested value: an int, or a sequence of ints
IntArg(m) == [is_int |-> TRUE, val |-> m]

ListArg(l) == [is_int |-> FALSE, val |-> l]

\* lines 367-370: an int becomes a one-element list, anything else a new list
AsList(arg) == IF arg.is_int THEN <<arg.val>> ELSE arg.val

\* mutant: the redundancy adjustment is applied to every axis
n_modes_setter_all(complex_data, arg) ==
    LET n_modes == AsList(arg)
    IN  IF ~complex_data
        THEN [i \in 1 .. Len(n_modes) |-> FloorDiv(n_modes[i], 2) + 1]
        ELSE n_modes

\* mutant: the request is stored as it is
n_modes_setter_raw(complex_data, arg) == AsList(arg)

\* the value the setter stores in _n_modes
n_modes_setter(complex_data, arg) ==
    LET n_modes == AsList(arg)
    IN  IF ~complex_data
        THEN [n_modes EXCEPT ![Len(n_modes)] = FloorDiv(n_modes[Len(n_modes)], 2) + 1]
        ELSE n_modes

(***************************************************************************)
(* Tensors and einsum.  A tensor is its shape and its entries; einsum is   *)
(* the sum, over the symbols absent from the output, of the product of    *)
(* the operands' entries.                                                   *)
(***************************************************************************)
einsum_symbols ==
    << "a", "b", "c", "d", "e", "f", "g", "h", "i", "j", "k", "l", "m",
       "n", "o", "p", "q", "r", "s", "t", "u", "v", "w", "x", "y", "z",
       "A", "B", "C", "D", "E", "F", "G", "H", "I", "J", "K", "L", "M",
       "N", "O", "P", "Q", "R", "S", "T", "U", "V", "W", "X", "Y", "Z" >>

\* einsum_symbols[i]
Sym(i) == einsum_symbols[i + 1]

\* einsum_symbols[lo:hi]
Syms(lo, hi) == SubSeq(einsum_symbols, lo + 1, hi)

\* l[lo:] of a list
From(l, lo) == SubSeq(l, lo + 1, Len(l))

\* l.insert(1, v)
Insert1(l, v) == <<l[1], v>> \o From(l, 1)

SeqMax(l) == IF l = <<>> THEN 0 ELSE CHOOSE m \in {l[i] : i \in 1 .. Len(l)} : \A i \in 1 .. Len(l) : l[i] <= m

\* the index tuples (1-based) of a tensor of the given shape
Box(shape) == {t \in [1 .. Len(shape) -> 1 .. SeqMax(shape)] : \A i \in 1 .. Len(shape) : t[i] <= shape[i]}

Tensor(shape, val) == [shape |-> shape, val |-> val]

Equation(ins, out) == [ins |-> ins, out |-> out]

SymsOf(l) == {l[i] : i \in 1 .. Len(l)}

EqSyms(eq) == UNION {SymsOf(eq.ins[k]) : k \in 1 .. Len(eq.ins)}

\* the size einsum gives a symbol: that of the first operand axis it labels
DimOf(eq, shapes, sym) ==
    LET k == CHOOSE k \in 1 .. Len(eq.ins) :
                 /\ sym \in SymsOf(eq.ins[k])
                 /\ \A k2 \in 1 .. k - 1 : sym \notin SymsOf(eq.ins[k2])
        j == CHOOSE j \in 1 .. Len(eq.ins[k]) : eq.ins[k][j] = sym
    IN  shapes[k][j]

\* einsum accepts the operands: one subscript per axis, one size per symbol,
\* every output symbol bound by an operand
EinsumOK(eq, shapes) ==
    /\ Len(eq.ins) = Len(shapes)
    /\ \A k \in 1 .. Len(eq.ins) : Len(eq.ins[k]) = Len(shapes[k])
    /\ \A k \in 1 .. Len(eq.ins) : \A j \in 1 .. Len(eq.ins[k]) :
           shapes[k][j] = DimOf(eq, shapes, eq.ins[k][j])
    /\ SymsOf(eq.out) \subseteq EqSyms(eq)

EinsumShape(eq, shapes) == [i \in 1 .. Len(eq.out) |-> DimOf(eq, shapes, eq.out[i])]

RECURSIVE Product(_, _, _, _)
Product(eq, tensors, asg, k) ==
    IF k > Len(tensors) THEN 1
    ELSE tensors[k].val[[j \in 1 .. Len(eq.ins[k]) |-> asg[eq.ins[k][j]]]]
         * Product(eq, tensors, asg, k + 1)

RECURSIVE SumOver(_, _, _, _, _, _)
SumOver(eq, tensors, shapes, free, asg, v) ==
    IF free = <<>> THEN Product(eq, tensors, asg, 1)
    ELSE IF v > DimOf(eq, shapes, Head(free)) THEN 0
    ELSE SumOver(eq, tensors, shapes, Tail(free), (Head(free) :> v) @@ asg, 1)
         + SumOver(eq, tensors, shapes, free, asg, v + 1)

\* tl.einsum(eq, *tensors) and einsum_complexhalf(eq, *tensors)
Einsum(eq, tensors) ==
    LET shapes == [k \in 1 .. Len(tensors) |-> tensors[k].shape]
        free == SelectSeq(einsum_symbols, LAMBDA s : s \in EqSyms(eq) /\ s \notin SymsOf(eq.out))
        oshape == EinsumShape(eq, shapes)
    IN  Tensor(oshape,
               [o \in Box(oshape) |->
                   SumOver(eq, tensors, shapes, free, [i \in SymsOf(eq.out) |->
                       o[CHOOSE p \in 1 .. Len(eq.out) : eq.out[p] = i]], 1)])

(***************************************************************************)
(* The equations the contraction functions build (order = tl.ndim(x)).     *)
(***************************************************************************)
\* mutant: the separable layout contracts like the non-separable one
DenseEq_nosep(order, separable) ==
    LET x_syms == Syms(0, order)
        weight_syms == Insert1(From(x_syms, 1), Sym(order))
    IN  Equation(<<x_syms, weight_syms>>, <<x_syms[1]>> \o From(weight_syms, 1))

\* _contract_dense
DenseEq(order, separable) ==
    LET x_syms == Syms(0, order)
        weight_syms == From(x_syms, 1)
    IN  IF separable
        THEN Equation(<<x_syms, weight_syms>>, <<x_syms[1]>> \o weight_syms)
        ELSE LET w2 == Insert1(weight_syms, Sym(order))
             IN  Equation(<<x_syms, w2>>, <<x_syms[1]>> \o From(w2, 1))

\* mutant: the input- and output-channel factors are swapped
CPEq_swapped(order, separable) ==
    LET x_syms == Syms(0, order)
        rank_sym == Sym(order)
        out_sym == Sym(order + 1)
        spatial == [i \in 1 .. order - 2 |-> <<x_syms[i + 2], rank_sym>>]
    IN  IF separable
        THEN Equation(<<x_syms, <<rank_sym>>, <<Sym(1), rank_sym>>>> \o spatial, x_syms)
        ELSE Equation(<<x_syms, <<rank_sym>>, <<out_sym, rank_sym>>, <<Sym(1), rank_sym>>>> \o spatial,
                      [x_syms EXCEPT ![2] = out_sym])

\* _contract_cp
CPEq(order, separable) ==
    LET x_syms == Syms(0, order)
        rank_sym == Sym(order)
        out_sym == Sym(order + 1)
        spatial == [i \in 1 .. order - 2 |-> <<x_syms[i + 2], rank_sym>>]
    IN  IF separable
        THEN Equation(<<x_syms, <<rank_sym>>, <<Sym(1), rank_sym>>>> \o spatial, x_syms)
        ELSE Equation(<<x_syms, <<rank_sym>>, <<Sym(1), rank_sym>>, <<out_sym, rank_sym>>>> \o spatial,
                      [x_syms EXCEPT ![2] = out_sym])

\* mutant: the separable core is sliced like the non-separable one
TuckerEq_core(order, separable) ==
    LET x_syms == Syms(0, order)
        out_sym == Sym(order)
        core_syms == Syms(order + 1, 2 * order + 1)
    IN  IF separable
        THEN Equation(<<x_syms, core_syms>>
                      \o [i \in 1 .. order - 1 |-> <<x_syms[i + 1], core_syms[i]>>], x_syms)
        ELSE Equation(<<x_syms, core_syms, <<Sym(1), core_syms[1]>>, <<out_sym, core_syms[2]>>>>
                      \o [i \in 1 .. order - 2 |-> <<x_syms[i + 2], core_syms[i + 2]>>],
                      [x_syms EXCEPT ![2] = out_sym])

\* _contract_tucker
TuckerEq(order, separable) ==
    LET x_syms == Syms(0, order)
        out_sym == Sym(order)
    IN  IF separable
        THEN LET core_syms == Syms(order + 1, 2 * order)
             IN  Equation(<<x_syms, core_syms>>
                          \o [i \in 1 .. order - 1 |-> <<x_syms[i + 1], core_syms[i]>>], x_syms)
        ELSE LET core_syms == Syms(order + 1, 2 * order + 1)
             IN  Equation(<<x_syms, core_syms, <<Sym(1), core_syms[1]>>, <<out_sym, core_syms[2]>>>>
                          \o [i \in 1 .. order - 2 |-> <<x_syms[i + 2], core_syms[i + 2]>>],
                          [x_syms EXCEPT ![2] = out_sym])

\* mutant: every core of the chain uses the same pair of rank bonds
TTEq_bonds(order, separable) ==
    LET x_syms == Syms(0, order)
        weight_syms == IF separable THEN From(x_syms, 1) ELSE Insert1(From(x_syms, 1), Sym(order))
        out_syms == IF separable THEN x_syms ELSE <<x_syms[1]>> \o From(weight_syms, 1)
        rank_syms == From(einsum_symbols, order + 1)
    IN  Equation(<<x_syms>> \o [i \in 1 .. Len(weight_syms) |->
                     <<rank_syms[1], weight_syms[i], rank_syms[2]>>], out_syms)

\* _contract_tt
TTEq(order, separable) ==
    LET x_syms == Syms(0, order)
        weight_syms == IF separable THEN From(x_syms, 1) ELSE Insert1(From(x_syms, 1), Sym(order))
        out_syms == IF separable THEN x_syms ELSE <<x_syms[1]>> \o From(weight_syms, 1)
        rank_syms == From(einsum_symbols, order + 1)
    IN  Equation(<<x_syms>> \o [i \in 1 .. Len(weight_syms) |->
                     <<rank_syms[i], weight_syms[i], rank_syms[i + 1]>>], out_syms)

(***************************************************************************)
(* Weights.  A weight is its class, its name and the tensors it is made   *)
(* of: the dense tensor; or the rank weights and the factors (CP); the    *)
(* core and the factors (Tucker); the chain of cores (TT).                 *)
(***************************************************************************)
Weight(class, name, kind, parts) == [class |-> class, name |-> name, kind |-> kind, parts |-> parts]

\* the equations of the reconstruction of a factorized tensor with k axes
CPToTensorEq(k) ==
    Equation(<<<<Sym(k)>>>> \o [i \in 1 .. k |-> <<Sym(i - 1), Sym(k)>>], Syms(0, k))

TuckerToTensorEq(k) ==
    Equation(<<Syms(k, 2 * k)>> \o [i \in 1 .. k |-> <<Sym(i - 1), Sym(k + i - 1)>>], Syms(0, k))

TTToTensorEq(k) ==
    Equation([i \in 1 .. k |-> <<Sym(k + i - 1), Sym(i - 1), Sym(k + i)>>], Syms(0, k))

\* weight.to_tensor()
to_tensor(weight) ==
    CASE weight.kind = "dense" -> weight.parts[1]
      [] weight.kind = "cp" -> Einsum(CPToTensorEq(Len(weight.parts) - 1), weight.parts)
      [] weight.kind = "tucker" -> Einsum(TuckerToTensorEq(Len(weight.parts) - 1), weight.parts)
      [] weight.kind = "tt" -> Einsum(TTToTensorEq(Len(weight.parts)), weight.parts)

\* the result of a contraction: a tensor, or a shape error of the tensor runtime
Ok(t) == [ok |-> TRUE, t |-> t]

ShapeError == [ok |-> FALSE, t |-> Tensor(<<>>, <<>>)]

EinsumChecked(eq, tensors) ==
    IF EinsumOK(eq, [k \in 1 .. Len(tensors) |-> tensors[k].shape])
    THEN Ok(Einsum(eq, tensors))
    ELSE ShapeError

\* lines 39-40: a weight that is not a plain tensor is reconstructed
Densified(weight) == IF weight.class = "Tensor" THEN weight.parts[1] ELSE to_tensor(weight)

_contract_dense(x, weight, separable) ==
    EinsumChecked(DenseEq(Len(x.shape), separable), <<x, Densified(weight)>>)

\* x * weight: broadcasting aligns the shapes at their last axis
BroadcastOK(xs, ws) ==
    /\ Len(ws) <= Len(xs)
    /\ \A i \in 1 .. Len(ws) :
           LET a == xs[Len(xs) - Len(ws) + i]
               b == ws[i]
           IN  a = b \/ a = 1 \/ b = 1

BroadcastShape(xs, ws) ==
    [i \in 1 .. Len(xs) |->
        IF i <= Len(xs) - Len(ws) THEN xs[i] ELSE Max(xs[i], ws[i - (Len(xs) - Len(ws))])]

BroadcastMul(x, w) ==
    LET xs == x.shape
        ws == w.shape
        d == Len(xs) - Len(ws)
        os == BroadcastShape(xs, ws)
    IN  Tensor(os, [o \in Box(os) |->
            x.val[[i \in 1 .. Len(xs) |-> IF xs[i] = 1 THEN 1 ELSE o[i]]]
            * w.val[[i \in 1 .. Len(ws) |-> IF ws[i] = 1 THEN 1 ELSE o[i + d]]]])

_contract_dense_separable(x, weight, separable) ==
    LET w == Densified(weight)
    IN  IF BroadcastOK(x.shape, w.shape) THEN Ok(BroadcastMul(x, w)) ELSE ShapeError

_contract_cp(x, cp_weight, separable) ==
    EinsumChecked(CPEq(Len(x.shape), separable), <<x>> \o cp_weight.parts)

_contract_tucker(x, tucker_weight, separable) ==
    EinsumChecked(TuckerEq(Len(x.shape), separable), <<x>> \o tucker_weight.parts)

_contract_tt(x, tt_weight, separable) ==
    EinsumChecked(TTEq(Len(x.shape), separable), <<x>> \o tt_weight.parts)

\* self._contract(x, weight, separable=self.separable)
Call(fun, x, weight, separable) ==
    CASE fun = "_contract_dense" -> _contract_dense(x, weight, separable)
      [] fun = "_contract_dense_separable" -> _contract_dense_separable(x, weight, separable)
      [] fun = "_contract_cp" -> _contract_cp(x, weight, separable)
      [] fun = "_contract_tucker" -> _contract_tucker(x, weight, separable)
      [] fun = "_contract_tt" -> _contract_tt(x, weight, separable)

(***************************************************************************)
(* Test data: tensors whose entries are drawn from a seed.                 *)
(***************************************************************************)
RECURSIVE Weighted(_, _, _)
Weighted(t, i, salt) ==
    IF i > Len(t) THEN 0 ELSE t[i] * (3 * i + salt) + Weighted(t, i + 1, salt)

Entry(seed, salt, t) ==
    LET h == seed * 31 + salt * 17 + Weighted(t, 1, salt)
    IN  ((h * h + (h \div 3)) % 5) - 2

Gen(seed, salt, shape) == Tensor(shape, [t \in Box(shape) |-> Entry(seed, salt, t)])

\* a factorized weight of the given dense shape, every rank equal to rank
GenWeight(kind, seed, shape, rank) ==
    LET k == Len(shape)
    IN  CASE kind = "dense" ->
               Weight("FactorizedTensor", StrDense, kind, <<Gen(seed, 1, shape)>>)
          [] kind = "cp" ->
               Weight("FactorizedTensor", StrCP, kind,
                      <<Gen(seed, 1, <<rank>>)>> \o [i \in 1 .. k |-> Gen(seed, i + 1, <<shape[i], rank>>)])
          [] kind = "tucker" ->
               Weight("FactorizedTensor", StrTucker, kind,
                      <<Gen(seed, 1, [i \in 1 .. k |-> rank])>>
                      \o [i \in 1 .. k |-> Gen(seed, i + 1, <<shape[i], rank>>)])
          [] kind = "tt" ->
               Weight("FactorizedTensor", StrTT, kind,
                      [i \in 1 .. k |-> Gen(seed, i, <<IF i = 1 THEN 1 ELSE rank, shape[i],
                                                       IF i = k THEN 1 ELSE rank>>)])

(***************************************************************************)
(* State.                                                                  *)
(***************************************************************************)
NoLayer == [constructed |-> FALSE]

NoCtor == [called |-> FALSE, ops |-> <<>>, error |-> NoError, args |-> <<>>]

NoCall == [op |-> "none"]

NoDispatch == [called |-> FALSE]

NoCt == [called |-> FALSE]

NoTrainer == [pc |-> "none"]

Init ==
    /\ layer = NoLayer
    /\ ctor = NoCtor
    /\ call = NoCall
    /\ dispatch = NoDispatch
    /\ ct = NoCt
    /\ trainer = NoTrainer

(***************************************************************************)
(* SpectralConv.__init__.  The arguments are a record; the result is the   *)
(* statements that ran (up to the one that raised), the error and the      *)
(* object's fields.                                                         *)
(***************************************************************************)
CtorArgs(in_channels, out_channels, n_modes, max_n_modes, bias, separable,
         factorization, implementation, complex_data, complex_name) ==
    [in_channels |-> in_channels, out_channels |-> out_channels, n_modes |-> n_modes,
     max_n_modes |-> max_n_modes, bias |-> bias, separable |-> separable,
     factorization |-> factorization, implementation |-> implementation,
     complex_data |-> complex_data, complex_name |-> complex_name,
     output_scaling_factor |-> None]

\* the value line 290 stores in output_scaling_factor when the argument is
\* given: a list of ratios, one per axis ("flat"), or one such list per usage
\* site ("nested"); a ratio r stands for r / 2, so that 0.5 and 1.5 are values.
\* rows holds the lists of ratios: the list itself for a flat factor, the
\* lists of the sites for a nested one
ScalingFactor(form, rows) == [form |-> form, rows |-> rows]

\* len(output_scaling_factor)
FactorLen(f) == IF f.form = "flat" THEN Len(f.rows[1]) ELSE Len(f.rows)

\* the same arguments with output_scaling_factor given
WithScaling(a, factor) == [a EXCEPT !.output_scaling_factor = Some(factor)]

\* mutant: the channel counts are compared only after the weight is created
CtorSteps_late ==
    << "n_modes", "max_n_modes", "weight_shape", "new_weight", "normal_",
       "separable_check", "get_contract_fun", "bias" >>

\* the statements of __init__ that the model follows, in source order
CtorSteps ==
    << "n_modes", "max_n_modes", "separable_check", "weight_shape",
       "new_weight", "normal_", "get_contract_fun", "bias" >>

StepsUpTo(step) ==
    SubSeq(CtorSteps, 1, CHOOSE i \in 1 .. Len(CtorSteps) : CtorSteps[i] = step)

\* lines 278-282
InitMaxNModes(max_n_modes, n_modes) ==
    IF IsNone(max_n_modes) THEN n_modes ELSE AsList(max_n_modes[1])

\* mutant: a separable layer accepts any pair of channel counts
SeparableRejected_never(separable, in_channels, out_channels) == FALSE

\* lines 309-310
SeparableRejected(separable, in_channels, out_channels) ==
    separable /\ in_channels # out_channels

\* lines 316 and 318
WeightShape(separable, in_channels, out_channels, max_n_modes) ==
    IF separable
    THEN <<in_channels>> \o max_n_modes
    ELSE <<in_channels, out_channels>> \o max_n_modes

\* FactorizedTensor.new(weight_shape, factorization=..., dtype=torch.cfloat):
\* the library names the object after its factorization, with or without the
\* prefix of its complex variant
NewWeight(shape, factorization, complex_name) ==
    [class |-> "FactorizedTensor",
     name |-> IF complex_name THEN StrComplex \o factorization ELSE factorization,
     shape |-> shape]

SpectralConvInit(a) ==
    LET n_modes == n_modes_setter(a.complex_data, a.n_modes)
        order == Len(n_modes)
        max_n_modes == InitMaxNModes(a.max_n_modes, n_modes)
        factorization == IF IsNone(a.factorization) THEN Some(StrDense) ELSE a.factorization
        weight_shape == WeightShape(a.separable, a.in_channels, a.out_channels, max_n_modes)
        weight == IF IsNone(factorization)
                  THEN [class |-> "Tensor", name |-> <<>>, shape |-> <<Len(weight_shape)>>]
                  ELSE NewWeight(weight_shape, factorization[1], a.complex_name)
        contract == get_contract_fun(weight, a.implementation, a.separable)
    IN  IF SeparableRejected(a.separable, a.in_channels, a.out_channels)
        THEN [ops |-> StepsUpTo("separable_check"),
              error |-> ValueError("separable", <<a.in_channels, a.out_channels>>),
              layer |-> NoLayer]
        ELSE IF contract.error # NoError
        THEN [ops |-> StepsUpTo("get_contract_fun"), error |-> contract.error, layer |-> NoLayer]
        ELSE [ops |-> CtorSteps,
              error |-> NoError,
              layer |-> [constructed |-> TRUE,
                         in_channels |-> a.in_channels,
                         out_channels |-> a.out_channels,
                         complex_data |-> a.complex_data,
                         n_modes |-> n_modes,
                         order |-> order,
                         max_n_modes |-> max_n_modes,
                         implementation |-> a.implementation,
                         separable |-> a.separable,
                         weight |-> weight,
                         contract |-> contract.fun,
                         bias |-> a.bias,
                         output_scaling_factor |-> a.output_scaling_factor]]


(***************************************************************************)
(* SpectralConv.forward.  The spectrum of the input is followed            *)
(* symbolically: the coefficient that the forward transform puts at index  *)
(* t is named t, and a cell of the output buffer is Zero or the product of *)
(* an input coefficient (src) and a weight entry (w).                       *)
(***************************************************************************)
Zero == [zero |-> TRUE, src |-> <<>>, w |-> <<>>]

Cell(src, w) == [zero |-> FALSE, src |-> src, w |-> w]

\* the index tuples (0-based) of a buffer of the given shape
Box0(shape) == {t \in [1 .. Len(shape) -> 0 .. SeqMax(shape) - 1] : \A i \in 1 .. Len(shape) : t[i] < shape[i]}

\* lines 394-396
FftSize(mode_sizes, complex_data) ==
    IF complex_data THEN mode_sizes
    ELSE [mode_sizes EXCEPT ![Len(mode_sizes)] = FloorDiv(mode_sizes[Len(mode_sizes)], 2) + 1]

\* fft_dims[:-1], as axes of the spatial part, when order > 1 (lines 406 and 461)
ShiftAxes(order) == IF order > 1 THEN 1 .. order - 1 ELSE {}

\* torch.fft.fftshift(buf, dim=axes): a roll by size // 2 along each axis
fftshift(buf, shape, axes) ==
    [t \in Box0(shape) |->
        buf[[i \in 1 .. Len(shape) |->
                IF i \in axes THEN (t[i] - FloorDiv(shape[i], 2)) % shape[i] ELSE t[i]]]]

\* torch.fft.ifftshift(buf, dim=axes): the roll that undoes fftshift
ifftshift(buf, shape, axes) ==
    [t \in Box0(shape) |->
        buf[[i \in 1 .. Len(shape) |->
                IF i \in axes THEN (t[i] + FloorDiv(shape[i], 2)) % shape[i] ELSE t[i]]]]

\* zip(a, b, ...) stops at the shortest list
ZipLen2(a, b) == Min(Len(a), Len(b))

\* line 422
WeightStarts(fft_size, n_modes, max_n_modes) ==
    [i \in 1 .. Min(Len(fft_size), ZipLen2(n_modes, max_n_modes)) |->
        max_n_modes[i] - Min(fft_size[i], n_modes[i])]

\* line 445
ActivationStarts(x_sizes, w_sizes) ==
    [i \in 1 .. ZipLen2(x_sizes, w_sizes) |-> x_sizes[i] - Min(x_sizes[i], w_sizes[i])]

\* mutant: the stop is -(start // 2), the negation taken after the division
SymSlice_neg(start) ==
    IF start # 0
    THEN Slice(Some(FloorDiv(start, 2)), Some(-FloorDiv(start, 2)))
    ELSE Slice(Some(start), None)

\* slice(start//2, -start//2) if start else slice(start, None)
SymSlice(start) ==
    IF start # 0
    THEN Slice(Some(FloorDiv(start, 2)), Some(FloorDiv(-start, 2)))
    ELSE Slice(Some(start), None)

\* slice(None, -starts[-1]) if starts[-1] else slice(None)
LastSlice(start) ==
    IF start # 0 THEN Slice(None, Some(-start)) ELSE Slice(None, None)

\* mutant: the last axis of real data is windowed like the others
SpatialSlices_sym(starts, complex_data) ==
    [i \in 1 .. Len(starts) |-> SymSlice(starts[i])]

\* lines 430-435 and 448-452: the slices of the spatial axes
SpatialSlices(starts, complex_data) ==
    [i \in 1 .. Len(starts) |->
        IF complex_data \/ i < Len(starts) THEN SymSlice(starts[i]) ELSE LastSlice(starts[i])]

\* the shape of t[slices] on the spatial axes
WindowShape(slices, sizes) == [i \in 1 .. Len(slices) |-> SliceLen(slices[i], sizes[i])]

InWindow(t, slices, sizes) == \A i \in 1 .. Len(slices) : t[i] \in SliceIdx(slices[i], sizes[i])

\* the shape of the contraction's result, or <<>> with ok = FALSE
ContractShape(fun, x_shape, w_shape, separable) ==
    IF fun = "_contract_dense_separable"
    THEN [ok |-> BroadcastOK(x_shape, w_shape), shape |-> BroadcastShape(x_shape, w_shape)]
    ELSE LET eq == DenseEq(Len(x_shape), separable)
         IN  IF EinsumOK(eq, <<x_shape, w_shape>>)
             THEN [ok |-> TRUE, shape |-> EinsumShape(eq, <<x_shape, w_shape>>)]
             ELSE [ok |-> FALSE, shape |-> <<>>]

\* t[slices] = value: value must broadcast to the shape of the slice
SetItemOK(target, value) ==
    /\ Len(value) = Len(target)
    /\ \A i \in 1 .. Len(value) : value[i] = target[i] \/ value[i] = 1

\* mutant: the buffer takes the channel count of the input
OutFftChannels_in(in_channels, out_channels) == in_channels

\* line 418: the channel count of out_fft
OutFftChannels(in_channels, out_channels) == out_channels

\* mutant: the window is written at the start of the buffer
ScatterIndex_origin(t, lo) == t

\* the position, in the window, of buffer index t (line 453)
ScatterIndex(t, lo) == [i \in 1 .. Len(t) |-> t[i] - lo[i]]

\* mutant: the output buffer is not shifted
OutputShift_none(buf, shape, axes) == buf

\* line 462
OutputShift(buf, shape, axes) == fftshift(buf, shape, axes)

RuntimeError(site, args) == [type |-> "RuntimeError", site |-> site, args |-> args]

TypeError(site, args) == [type |-> "TypeError", site |-> site, args |-> args]

IndexError(site, args) == [type |-> "IndexError", site |-> site, args |-> args]

\* a shape argument as Python passes it: a tuple, a list or a bare int
PyTuple(val) == [kind |-> "tuple", val |-> val]

PyList(val) == [kind |-> "list", val |-> val]

PyInt(val) == [kind |-> "int", val |-> <<val>>]

\* round(s * r) for an integer s and the ratio r / 2: Python rounds a half to
\* the even neighbour
PyRound(s, r) ==
    LET n == s * r
        q == FloorDiv(n, 2)
    IN  IF n % 2 = 0 THEN q
        ELSE IF q % 2 = 0 THEN q ELSE q + 1

\* [round(s * r) for (s, r) in zip(sizes, ratios)]
ScaledSizes(sizes, ratios) ==
    [i \in 1 .. ZipLen2(sizes, ratios) |-> PyRound(sizes[i], ratios[i])]

\* the s argument of the inverse transform: a bare int is taken as a
\* one-element list
InverseSizes(shape) == shape.val

\* the inverse transform accepts s when it has one entry per transformed axis
\* and every entry is at least 1
InverseOK(sizes, order) ==
    /\ Len(sizes) = order
    /\ \A i \in 1 .. Len(sizes) : sizes[i] >= 1

\* line 406: the transformed activation is centred
InputShiftApplied(order) == order > 1

\* mutant: the output buffer is shifted only when the output is resized
OutputShiftApplied_resized(order, resized) == resized /\ order > 1

\* line 461: the output buffer is shifted
OutputShiftApplied(order, resized) == order > 1

SpectralConvForward(L, x_shape, output_shape) ==
    LET batchsize == x_shape[1]
        channels == x_shape[2]
        mode_sizes == From(x_shape, 2)
        fft_size == FftSize(mode_sizes, L.complex_data)
        order == L.order
        \* lines 402-407
        x_fft == [t \in Box0(fft_size) |-> t]
        x == IF InputShiftApplied(order) THEN fftshift(x_fft, fft_size, ShiftAxes(order)) ELSE x_fft
        out_shape == <<batchsize, OutFftChannels(L.in_channels, L.out_channels)>> \o fft_size
        \* lines 422-437
        starts_w == WeightStarts(fft_size, L.n_modes, L.max_n_modes)
        slices_w == SpatialSlices(starts_w, L.complex_data)
        weight_start_idx == IF L.separable THEN 1 ELSE 2
        w_all == From(L.weight.shape, weight_start_idx)
        w_modes == WindowShape(slices_w, w_all)
        w_shape == SubSeq(L.weight.shape, 1, weight_start_idx) \o w_modes
        \* lines 445-452
        starts_x == ActivationStarts(fft_size, w_modes)
        slices_x == SpatialSlices(starts_x, L.complex_data)
        x_modes == WindowShape(slices_x, fft_size)
        x_win == <<batchsize, channels>> \o x_modes
        \* line 453
        res == ContractShape(L.contract, x_win, w_shape, L.separable)
        target == <<batchsize, out_shape[2]>> \o x_modes
        lo_x == [i \in 1 .. Len(slices_x) |-> SliceLo(slices_x[i], fft_size[i])]
        lo_w == [i \in 1 .. Len(slices_w) |-> SliceLo(slices_w[i], w_all[i])]
        scattered ==
            [t \in Box0(fft_size) |->
                IF InWindow(t, slices_x, fft_size)
                THEN LET r == ScatterIndex(t, lo_x)
                     IN  Cell(x[[i \in 1 .. Len(t) |-> lo_x[i] + (IF x_modes[i] = 1 THEN 0 ELSE r[i])]],
                              [i \in 1 .. Len(t) |-> lo_w[i] + (IF w_modes[i] = 1 THEN 0 ELSE r[i])])
                ELSE Zero]
        \* lines 455-459
        factor == L.output_scaling_factor
        scaled == ~IsNone(factor) /\ IsNone(output_shape)
        resized == ~IsNone(factor) \/ ~IsNone(output_shape)
        \* s * r repeats a list r, and round() of a list raises
        round_fails == IF scaled
                       THEN factor[1].form = "nested" /\ FactorLen(factor[1]) > 0 /\ Len(mode_sizes) > 0
                       ELSE FALSE
        sizes == IF ~IsNone(output_shape) THEN InverseSizes(output_shape[1])
                 ELSE IF scaled /\ ~round_fails THEN ScaledSizes(mode_sizes, factor[1].rows[1])
                 ELSE mode_sizes
        \* lines 461-462
        out_shifted == OutputShiftApplied(order, resized)
        out_fft == IF out_shifted THEN OutputShift(scattered, fft_size, ShiftAxes(order)) ELSE scattered
        common == [op |-> "forward", x_shape |-> x_shape, fft_size |-> fft_size,
                   shifted |-> InputShiftApplied(order), starts_w |-> starts_w, slices_w |-> slices_w,
                   w_shape |-> w_shape, starts_x |-> starts_x, slices_x |-> slices_x,
                   x_win |-> x_win, output_shape |-> output_shape,
                   \* self._contract at line 453
                   contract |-> L.contract,
                   \* dim=fft_dims[:-1] at lines 407 and 462
                   shift_axes |-> IF InputShiftApplied(order) THEN ShiftAxes(order) ELSE {}]
        failed(error, reached_shift) ==
            common @@
            [error |-> error, scattered |-> <<>>, out_fft |-> <<>>, result_shape |-> <<>>,
             out_shifted |-> reached_shift /\ out_shifted, reached_shift |-> reached_shift,
             out_shift_axes |-> IF reached_shift /\ out_shifted THEN ShiftAxes(order) ELSE {}]
    IN  IF ~res.ok
        THEN failed(RuntimeError("contract", <<x_win, w_shape>>), FALSE)
        ELSE IF ~SetItemOK(target, res.shape)
        THEN failed(RuntimeError("setitem", <<target, res.shape>>), FALSE)
        ELSE IF round_fails
        THEN failed(TypeError("round", <<>>), FALSE)
        ELSE IF ~InverseOK(sizes, order)
        THEN failed(RuntimeError("inverse transform", sizes), TRUE)
        ELSE common @@
             [error |-> NoError, scattered |-> scattered, out_fft |-> out_fft,
              out_shifted |-> out_shifted, reached_shift |-> TRUE,
              out_shift_axes |-> IF out_shifted THEN ShiftAxes(order) ELSE {},
              \* lines 464-470: the inverse transform to s = mode_sizes, then the bias
              result_shape |-> <<batchsize, out_shape[2]>> \o sizes]

\* SpectralConv.transform(x, layer_index, output_shape)
SpectralConvTransform(L, x_shape, layer_index, output_shape) ==
    LET in_shape == PyList(From(x_shape, 2))
        factor == L.output_scaling_factor
        scaled == ~IsNone(factor) /\ IsNone(output_shape)
        \* self.output_scaling_factor[layer_index]
        index_fails == IF scaled THEN layer_index >= FactorLen(factor[1]) ELSE FALSE
        \* zip(in_shape, r) with r a float
        zip_fails == IF scaled /\ ~index_fails THEN factor[1].form = "flat" ELSE FALSE
        out_shape == IF scaled /\ ~index_fails /\ ~zip_fails
                     THEN PyTuple(ScaledSizes(in_shape.val, factor[1].rows[layer_index + 1]))
                     ELSE IF ~IsNone(output_shape) THEN output_shape[1]
                     ELSE in_shape
        \* in_shape == out_shape: a list never equals a tuple
        same == in_shape = out_shape
        common == [op |-> "transform", x_shape |-> x_shape, layer_index |-> layer_index,
                   output_shape |-> output_shape, in_shape |-> in_shape]
    IN  IF index_fails
        THEN common @@ [error |-> IndexError("output_scaling_factor", <<layer_index>>),
                        out_shape |-> in_shape, resampled |-> FALSE, result_shape |-> <<>>]
        ELSE IF zip_fails
        THEN common @@ [error |-> TypeError("zip", <<>>),
                        out_shape |-> in_shape, resampled |-> FALSE, result_shape |-> <<>>]
        ELSE common @@
             [error |-> NoError, out_shape |-> out_shape, resampled |-> ~same,
              \* resample(x, 1.0, axes, output_shape=out_shape) returns the
              \* spatial shape it is asked for
              result_shape |-> IF same THEN x_shape
                               ELSE SubSeq(x_shape, 1, 2) \o out_shape.val]


(***************************************************************************)
(* SpectralConv2d.forward, the reference layer for two axes: the spectrum  *)
(* is not shifted, and two blocks of rows are contracted with two blocks   *)
(* of the weight.                                                          *)
(***************************************************************************)
\* slices0 on the spatial axes (lines 557-562)
Slices0(n_modes) ==
    <<Slice(None, Some(FloorDiv(n_modes[1], 2))), Slice(None, Some(n_modes[2]))>>

\* slices1 on the spatial axes (lines 563-568); -self.n_modes[0] // 2 is (-n) // 2
Slices1(n_modes) ==
    <<Slice(Some(FloorDiv(-n_modes[1], 2)), None), Slice(None, Some(n_modes[2]))>>

\* out_fft[slices_out] = self._contract(x[slices_out], self.weight[slices_w]):
\* the shapes of the two windows, whether the statement raises, and the cells
\* it writes
BlockAssign(L, batchsize, channels, fft_size, slices_out, slices_w) ==
    LET w_all == From(L.weight.shape, 2)
        x_modes == WindowShape(slices_out, fft_size)
        w_modes == WindowShape(slices_w, w_all)
        x_win == <<batchsize, channels>> \o x_modes
        w_shape == SubSeq(L.weight.shape, 1, 2) \o w_modes
        res == ContractShape(L.contract, x_win, w_shape, L.separable)
        target == <<batchsize, L.out_channels>> \o x_modes
        lo_x == [i \in 1 .. 2 |-> SliceLo(slices_out[i], fft_size[i])]
        lo_w == [i \in 1 .. 2 |-> SliceLo(slices_w[i], w_all[i])]
    IN  [ok |-> IF res.ok THEN SetItemOK(target, res.shape) ELSE FALSE,
         shapes |-> <<x_win, w_shape>>,
         cells |-> [t \in {u \in Box0(fft_size) : InWindow(u, slices_out, fft_size)} |->
                      Cell(t, [i \in 1 .. 2 |->
                                  lo_w[i] + (IF w_modes[i] = 1 THEN 0 ELSE t[i] - lo_x[i])])]]

\* SpectralConv2d.forward(x) on the layer's n_modes and weight
SpectralConv2dForward(L, x_shape) ==
    LET batchsize == x_shape[1]
        channels == x_shape[2]
        height == x_shape[3]
        width == x_shape[4]
        \* lines 549-555
        fft_size == <<height, FloorDiv(width, 2) + 1>>
        slices0 == Slices0(L.n_modes)
        slices1 == Slices1(L.n_modes)
        \* lines 571-579: the upper block takes weight[slices1], the lower one weight[slices0]
        upper == BlockAssign(L, batchsize, channels, fft_size, slices0, slices1)
        lower == BlockAssign(L, batchsize, channels, fft_size, slices1, slices0)
        common == [op |-> "SpectralConv2d.forward", x_shape |-> x_shape, fft_size |-> fft_size]
    IN  IF ~upper.ok
        THEN common @@ [error |-> RuntimeError("contract", upper.shapes),
                        out_fft |-> <<>>, result_shape |-> <<>>]
        ELSE IF ~lower.ok
        THEN common @@ [error |-> RuntimeError("contract", lower.shapes),
                        out_fft |-> <<>>, result_shape |-> <<>>]
        ELSE common @@
             [error |-> NoError,
              out_fft |-> [t \in Box0(fft_size) |->
                             IF t \in DOMAIN lower.cells THEN lower.cells[t]
                             ELSE IF t \in DOMAIN upper.cells THEN upper.cells[t]
                             ELSE Zero],
              \* lines 585-587, with no scaling factor
              result_shape |-> <<batchsize, L.out_channels, height, width>>]

(***************************************************************************)
(* The operations on a layer.                                              *)
(***************************************************************************)
\* layer = SpectralConv(...)
Construct(a) ==
    LET r == SpectralConvInit(a)
    IN  /\ ~ctor.called
        /\ ctor' = [called |-> TRUE, ops |-> r.ops, error |-> r.error,
                    args |-> <<a.in_channels, a.out_channels, a.separable, a.implementation>>]
        /\ layer' = r.layer
        /\ call' = [op |-> "init", arg |-> a.n_modes, max_arg |-> a.max_n_modes]
        /\ UNCHANGED <<dispatch, ct, trainer>>

\* layer.n_modes = arg
SetNModes(arg) ==
    /\ layer.constructed
    /\ call = NoCall
    /\ layer' = [layer EXCEPT !.n_modes = n_modes_setter(layer.complex_data, arg)]
    /\ call' = [op |-> "set", arg |-> arg, max_arg |-> None]
    /\ UNCHANGED <<ctor, dispatch, ct, trainer>>

\* the value the getter returns (line 363)
n_modes_getter(L) == ListArg(L.n_modes)

\* layer.n_modes = layer.n_modes
Reassign ==
    /\ layer.constructed
    /\ call = NoCall
    /\ layer' = [layer EXCEPT !.n_modes = n_modes_setter(layer.complex_data, n_modes_getter(layer))]
    /\ call' = [op |-> "reassign", arg |-> n_modes_getter(layer), max_arg |-> None]
    /\ UNCHANGED <<ctor, dispatch, ct, trainer>>

\* layer.forward(x) for an input x of the given shape
Forward(x_shape) ==
    /\ layer.constructed
    /\ call = NoCall
    /\ call' = SpectralConvForward(layer, x_shape, None)
    /\ UNCHANGED <<layer, ctor, dispatch, ct, trainer>>

\* layer.forward(x, output_shape)
ForwardTo(x_shape, output_shape) ==
    /\ layer.constructed
    /\ call = NoCall
    /\ call' = SpectralConvForward(layer, x_shape, output_shape)
    /\ UNCHANGED <<layer, ctor, dispatch, ct, trainer>>

\* layer.transform(x, layer_index, output_shape)
Transform(x_shape, layer_index, output_shape) ==
    /\ layer.constructed
    /\ call = NoCall
    /\ call' = SpectralConvTransform(layer, x_shape, layer_index, output_shape)
    /\ UNCHANGED <<layer, ctor, dispatch, ct, trainer>>

\* SubConv(layer, indices).forward(x, **kwargs): the keyword arguments are
\* none or output_shape=...; the index is passed as the second positional
\* argument of the layer's forward, which is output_shape
SubConvForward(indices, x_shape, kwargs) ==
    /\ layer.constructed
    /\ call = NoCall
    /\ call' = [op |-> "SubConv.forward", indices |-> indices, kwargs |-> kwargs,
                error |-> IF IsNone(kwargs) THEN NoError
                          ELSE TypeError("multiple values for argument", <<"output_shape">>),
                inner |-> IF IsNone(kwargs)
                          THEN SpectralConvForward(layer, x_shape, Some(PyInt(indices)))
                          ELSE NoCall]
    /\ UNCHANGED <<layer, ctor, dispatch, ct, trainer>>

\* SubConv(layer, indices).transform(x, **kwargs): the index is passed as the
\* second positional argument of the layer's transform, which is layer_index
SubConvTransform(indices, x_shape, kwargs) ==
    /\ layer.constructed
    /\ call = NoCall
    /\ call' = [op |-> "SubConv.transform", indices |-> indices, kwargs |-> kwargs,
                error |-> NoError,
                inner |-> SpectralConvTransform(layer, x_shape, indices, kwargs)]
    /\ UNCHANGED <<layer, ctor, dispatch, ct, trainer>>

\* layer.forward(x, output_shape) and layer.transform(x, layer_index,
\* output_shape) on the same input, as a block does for its skip connection
ForwardAndTransform(x_shape, layer_index, output_shape) ==
    /\ layer.constructed
    /\ call = NoCall
    /\ call' = [op |-> "forward and transform", x_shape |-> x_shape,
                layer_index |-> layer_index, output_shape |-> output_shape,
                forward |-> SpectralConvForward(layer, x_shape, output_shape),
                transform |-> SpectralConvTransform(layer, x_shape, layer_index, output_shape)]
    /\ UNCHANGED <<layer, ctor, dispatch, ct, trainer>>

\* SpectralConv.forward(layer, x) and SpectralConv2d.forward(layer, x): the
\* two layers on the same attributes and the same input
ForwardBoth(x_shape) ==
    /\ layer.constructed
    /\ layer.order = 2
    /\ call = NoCall
    /\ call' = [op |-> "forward both", x_shape |-> x_shape,
                general |-> SpectralConvForward(layer, x_shape, None),
                reference |-> SpectralConv2dForward(layer, x_shape)]
    /\ UNCHANGED <<layer, ctor, dispatch, ct, trainer>>

\* layer.forward(x) and then layer.forward(y), for inputs of two resolutions
ForwardTwice(x_shape, y_shape) ==
    /\ layer.constructed
    /\ call = NoCall
    /\ call' = [op |-> "forward twice",
                first |-> SpectralConvForward(layer, x_shape, None),
                second |-> SpectralConvForward(layer, y_shape, None)]
    /\ UNCHANGED <<layer, ctor, dispatch, ct, trainer>>

\* the call returns to the caller: its frame is dropped
Return ==
    /\ call # NoCall
    /\ call' = NoCall
    /\ UNCHANGED <<layer, ctor, dispatch, ct, trainer>>

\* get_contract_fun(weight, implementation, separable), called on its own
Dispatch(weight, implementation, separable) ==
    /\ dispatch' = [called |-> TRUE, weight |-> weight, implementation |-> implementation,
                    separable |-> separable,
                    result |-> get_contract_fun(weight, implementation, separable)]
    /\ UNCHANGED <<layer, ctor, call, ct, trainer>>

(***************************************************************************)
(* The inputs of the operations.                                           *)
(***************************************************************************)
Orders == {1, 2}

\* the values n_modes and max_n_modes may be given for a layer of k axes
ModesArgs(k) ==
    {ListArg(l) : l \in [1 .. k -> 1 .. MaxModes]}
    \cup (IF k = 1 THEN {IntArg(m) : m \in 1 .. MaxModes} ELSE {})

\* the layer of the scenario of the documentation: 3 -> 4 channels, n_modes = [8, 8]
ScenarioArgs ==
    CtorArgs(3, 4, ListArg(<<8, 8>>), None, TRUE, FALSE, None, "reconstructed", FALSE, FALSE)

ScenarioShape == <<2, 3, 16, 16>>

\* dense layers with the default implementation
LayerArgs ==
    {CtorArgs(i, o, n, m, b, s, None, "reconstructed", c, FALSE) :
        i \in Dims, o \in Dims, b \in BOOLEAN, s \in BOOLEAN, c \in BOOLEAN,
        n \in UNION {ModesArgs(k) : k \in Orders},
        m \in {None} \cup {Some(x) : x \in UNION {ModesArgs(k) : k \in Orders}}}

\* max_n_modes, when given, has one entry per axis
WellFormed(a) ==
    IF IsNone(a.max_n_modes) THEN TRUE
    ELSE Len(AsList(a.max_n_modes[1])) = Len(AsList(a.n_modes))

\* the inputs forward is called with: in_channels channels, one axis per mode count
XShapes(L) ==
    {<<BatchSize, L.in_channels>> \o sp : sp \in [1 .. L.order -> 1 .. MaxSize]}
    \cup (IF L.in_channels = ScenarioShape[2] /\ L.order = 2 THEN {ScenarioShape} ELSE {})

Next ==
    \/ \E a \in {a \in LayerArgs \cup {ScenarioArgs} : WellFormed(a)} : Construct(a)
    \/ layer.constructed /\ \E arg \in ModesArgs(layer.order) : SetNModes(arg)
    \/ Reassign
    \/ layer.constructed /\ \E x_shape \in XShapes(layer) : Forward(x_shape)
    \/ Return

Spec == Init /\ [][Next]_vars


(***************************************************************************)
(* Construction and dispatch over the configuration arguments.             *)
(***************************************************************************)
Implementations == {"reconstructed", "factorized", "Factorized", "dense", ""}

Factorizations == {None, Some(StrDense), Some(StrTucker), Some(StrCP), Some(StrTT)}

ConfigArgs ==
    {CtorArgs(i, o, ListArg(<<MaxModes, MaxModes>>), None, TRUE, s, f, impl, FALSE, cn) :
        i \in Dims, o \in Dims, s \in BOOLEAN, f \in Factorizations,
        impl \in Implementations, cn \in BOOLEAN}

WeightNames ==
    {StrDense, StrTucker, StrTT, StrCP,
     StrComplex \o StrDense, StrComplex \o StrTucker, StrComplex \o StrTT, StrComplex \o StrCP,
     Lower(StrTucker), Lower(StrCP), StrBlock \o StrTT, StrMadeUp, StrTuckerX, <<>>}

DispatchWeights ==
    {[class |-> "Tensor", name |-> <<>>]}
    \cup {[class |-> "FactorizedTensor", name |-> n] : n \in WeightNames}
    \cup {[class |-> c, name |-> <<>>] : c \in {"ndarray", "list"}}

NextConfig ==
    \/ \E a \in ConfigArgs : Construct(a)
    \/ \E w \in DispatchWeights, impl \in Implementations, s \in BOOLEAN : Dispatch(w, impl, s)

SpecConfig == Init /\ [][NextConfig]_vars

\* get_contract_fun(weight, implementation, separable), its result kept in
\* the frame of the call
GetContractFun(weight, implementation, separable) ==
    /\ call = NoCall
    /\ call' = [op |-> "get_contract_fun", weight |-> weight,
                implementation |-> implementation, separable |-> separable,
                result |-> get_contract_fun(weight, implementation, separable)]
    /\ UNCHANGED <<layer, ctor, dispatch, ct, trainer>>

\* layers of every factorization and implementation, assigned n_modes and
\* called after construction
NextDispatch ==
    \/ \E a \in ConfigArgs : Construct(a)
    \/ \E w \in DispatchWeights, impl \in Implementations, s \in BOOLEAN : GetContractFun(w, impl, s)
    \/ layer.constructed /\ \E arg \in ModesArgs(layer.order) : SetNModes(arg)
    \/ layer.constructed /\ \E x_shape \in XShapes(layer) : Forward(x_shape)
    \/ Return

SpecDispatch == Init /\ [][NextDispatch]_vars

(***************************************************************************)
(* One training epoch, statement by statement.  A loader is the sequence   *)
(* of the sizes of its batches; the log lists the calls made on the        *)
(* optimizer, the regularizer, the model, the loss and the scheduler, each *)
(* with its epoch and the index of its batch (-1 outside a batch); an       *)
(* average is logged with the number of samples it divides by.             *)
(***************************************************************************)
Event(name, epoch, idx, value) == [name |-> name, epoch |-> epoch, idx |-> idx, value |-> value]

\* mutant: the gradients are zeroed after backward
BatchOps_late(regularizer) ==
    (IF regularizer THEN <<"regularizer.reset">> ELSE <<>>)
    \o <<"forward", "loss", "backward", "zero_grad", "optimizer.step">>

\* the calls of one batch: train_one_batch (lines 301-340), then lines 218-220
BatchOps(regularizer) ==
    <<"zero_grad">>
    \o (IF regularizer THEN <<"regularizer.reset">> ELSE <<>>)
    \o <<"forward", "loss", "backward", "optimizer.step">>

RECURSIVE SumSeq(_)
SumSeq(l) == IF l = <<>> THEN 0 ELSE Head(l) + SumSeq(Tail(l))

\* a trainer with a train loader and a test loader, about to train; the
\* attribute n_samples does not exist yet
EpochSetup(n_epochs, regularizer, train_loader, test_loader) ==
    /\ trainer = NoTrainer
    /\ trainer' = [pc |-> "train_one_epoch", n_epochs |-> n_epochs, regularizer |-> regularizer,
                   train_loader |-> train_loader, test_loader |-> test_loader,
                   epoch |-> 0, idx |-> 0, n_samples |-> None, log |-> <<>>]
    /\ UNCHANGED <<layer, ctor, call, dispatch, ct>>

\* lines 201-211: the start of train_one_epoch
TrainEpochStart ==
    /\ trainer.pc = "train_one_epoch"
    /\ trainer' = [trainer EXCEPT !.n_samples = 0, !.idx = 0, !.pc = "train_one_batch"]
    /\ UNCHANGED <<layer, ctor, call, dispatch, ct>>

\* lines 213-225: one iteration of the loop over the train loader
TrainOneBatch ==
    LET idx == trainer.idx
        ops == BatchOps(trainer.regularizer)
    IN  /\ trainer.pc = "train_one_batch"
        /\ idx < Len(trainer.train_loader)
        /\ trainer' = [trainer EXCEPT
                          !.log = @ \o [k \in 1 .. Len(ops) |-> Event(ops[k], trainer.epoch, idx, 0)],
                          \* line 315
                          !.n_samples = @ + trainer.train_loader[idx + 1],
                          !.idx = idx + 1]
        /\ UNCHANGED <<layer, ctor, call, dispatch, ct>>

\* lines 227-241: after the loop, the scheduler and the averages
SchedulerStep ==
    /\ trainer.pc = "train_one_batch"
    /\ trainer.idx = Len(trainer.train_loader)
    /\ trainer' = [trainer EXCEPT
                      !.log = @ \o <<Event("scheduler.step", trainer.epoch, -1, 0),
                                     Event("train average", trainer.epoch, -1, trainer.n_samples)>>,
                      !.pc = "evaluate"]
    /\ UNCHANGED <<layer, ctor, call, dispatch, ct>>

\* lines 262-268: the start of evaluate
EvaluateStart ==
    /\ trainer.pc = "evaluate"
    /\ trainer' = [trainer EXCEPT !.n_samples = 0, !.idx = 0, !.pc = "eval_one_batch"]
    /\ UNCHANGED <<layer, ctor, call, dispatch, ct>>

\* lines 270-273 and eval_one_batch (lines 342-360)
EvalOneBatch ==
    LET idx == trainer.idx
    IN  /\ trainer.pc = "eval_one_batch"
        /\ idx < Len(trainer.test_loader)
        /\ trainer' = [trainer EXCEPT
                          !.log = Append(@, Event("eval forward", trainer.epoch, idx, 0)),
                          !.n_samples = @ + trainer.test_loader[idx + 1],
                          !.idx = idx + 1]
        /\ UNCHANGED <<layer, ctor, call, dispatch, ct>>

\* lines 275-278: the averages of evaluate, then the next epoch
EvaluateEnd ==
    /\ trainer.pc = "eval_one_batch"
    /\ trainer.idx = Len(trainer.test_loader)
    /\ trainer' = [trainer EXCEPT
                      !.log = Append(@, Event("eval average", trainer.epoch, -1, trainer.n_samples)),
                      !.epoch = @ + 1,
                      !.pc = IF trainer.epoch + 1 < trainer.n_epochs THEN "train_one_epoch" ELSE "done"]
    /\ UNCHANGED <<layer, ctor, call, dispatch, ct>>

\* loaders of one or two batches, the last one possibly smaller
Loaders == {<<BatchSize>>, <<1>>, <<BatchSize, BatchSize>>, <<BatchSize, 1>>}

NextEpoch ==
    \/ \E n_epochs \in 1 .. MaxEpochs, regularizer \in BOOLEAN,
          train_loader \in Loaders, test_loader \in Loaders :
           EpochSetup(n_epochs, regularizer, train_loader, test_loader)
    \/ TrainEpochStart
    \/ TrainOneBatch
    \/ SchedulerStep
    \/ EvaluateStart
    \/ EvalOneBatch
    \/ EvaluateEnd

SpecEpoch == Init /\ [][NextEpoch]_vars

(***************************************************************************)
(* The lists behind n_modes and max_n_modes.  A list is an object on a     *)
(* heap, named by its address; two names of one object see each other's    *)
(* changes.  The caller owns the lists at addresses 1 and 2; an argument    *)
(* is an int or the address of a list.  A free address holds <<>>.         *)
(***************************************************************************)
Addrs == 1 .. 5

CallerAddrs == {1, 2}

IntVal(m) == [kind |-> "int", val |-> m]

Ref(a) == [kind |-> "ref", val |-> a]

\* a new list object
Alloc(h) == CHOOSE a \in Addrs : h[a] = <<>> /\ \A b \in Addrs : h[b] = <<>> => a <= b

\* objects no name refers to are dropped
Collect(h, live) == [a \in Addrs |-> IF a \in live THEN h[a] ELSE <<>>]

\* mutant: the adjustment is made in the list the caller passed
n_modes_assign_inplace(h, complex_data, arg) ==
    LET a == IF arg.kind = "int" THEN Alloc(h) ELSE arg.val
        n_modes == IF arg.kind = "int" THEN <<arg.val>> ELSE h[arg.val]
        stored == IF ~complex_data
                  THEN [n_modes EXCEPT ![Len(n_modes)] = FloorDiv(n_modes[Len(n_modes)], 2) + 1]
                  ELSE n_modes
    IN  [heap |-> [h EXCEPT ![a] = stored], ref |-> a]

\* the n_modes setter on the heap (lines 365-376): [n_modes] or list(n_modes)
\* is a new object, adjusted in place and bound to _n_modes
n_modes_assign(h, complex_data, arg) ==
    LET a == Alloc(h)
        n_modes == IF arg.kind = "int" THEN <<arg.val>> ELSE h[arg.val]
        stored == IF ~complex_data
                  THEN [n_modes EXCEPT ![Len(n_modes)] = FloorDiv(n_modes[Len(n_modes)], 2) + 1]
                  ELSE n_modes
    IN  [heap |-> [h EXCEPT ![a] = stored], ref |-> a]

\* lines 275-282 and 316-318 of __init__, for a dense layer of one channel;
\* c1 and c2 are the caller's lists
HeapInit(complex_data, c1, c2, n_arg, max_arg) ==
    LET h0 == [a \in Addrs |-> IF a = 1 THEN c1 ELSE IF a = 2 THEN c2 ELSE <<>>]
        set == n_modes_assign(h0, complex_data, n_arg)
        \* max_n_modes = self.n_modes is the object behind _n_modes
        max_ref == IF IsNone(max_arg) THEN set.ref
                   ELSE IF max_arg[1].kind = "int" THEN Alloc(set.heap)
                   ELSE max_arg[1].val
        h1 == IF ~IsNone(max_arg) /\ max_arg[1].kind = "int"
              THEN [set.heap EXCEPT ![max_ref] = <<max_arg[1].val>>]
              ELSE set.heap
    IN  /\ ~layer.constructed
        /\ layer' = [constructed |-> TRUE, complex_data |-> complex_data,
                     heap |-> h1, n_modes_ref |-> set.ref, max_n_modes_ref |-> max_ref,
                     order |-> Len(h1[set.ref]),
                     weight_shape |-> WeightShape(FALSE, 1, 1, h1[max_ref]),
                     \* what the caller passed and owned when the layer was built
                     max_was_none |-> IsNone(max_arg),
                     max_at_init |-> h1[max_ref],
                     caller_lists |-> <<c1, c2>>]
        /\ UNCHANGED <<ctor, call, dispatch, ct, trainer>>

\* layer.n_modes = arg, with arg an int, one of the caller's lists,
\* layer.n_modes or layer.max_n_modes
HeapSetNModes(arg) ==
    LET set == n_modes_assign(layer.heap, layer.complex_data, arg)
    IN  /\ layer.constructed
        /\ layer' = [layer EXCEPT
                        !.heap = Collect(set.heap, CallerAddrs \cup {layer.max_n_modes_ref, set.ref}),
                        !.n_modes_ref = set.ref]
        /\ UNCHANGED <<ctor, call, dispatch, ct, trainer>>

HeapLists(k) == [1 .. k -> 1 .. MaxModes]

HeapInts(k) == IF k = 1 THEN {IntVal(m) : m \in 1 .. MaxModes} ELSE {}

NextHeap ==
    \/ \E k \in Orders, complex_data \in BOOLEAN :
           \E c1 \in HeapLists(k), c2 \in HeapLists(k),
              n_arg \in HeapInts(k) \cup {Ref(1)},
              max_arg \in {None} \cup {Some(x) : x \in HeapInts(k) \cup {Ref(1), Ref(2)}} :
               HeapInit(complex_data, c1, c2, n_arg, max_arg)
    \/ layer.constructed /\
           \E arg \in HeapInts(layer.order)
                      \cup {Ref(a) : a \in CallerAddrs \cup {layer.n_modes_ref, layer.max_n_modes_ref}} :
               HeapSetNModes(arg)

SpecHeap == Init /\ [][NextHeap]_vars

(***************************************************************************)
(* Numeric precision.  A dtype is its torch name; the frame of a forward   *)
(* call lists the operations applied to the activation, each with the      *)
(* dtype of the activation after it.                                       *)
(***************************************************************************)
\* x.half()
Half(dtype) == "float16"

\* x.chalf()
CHalf(dtype) == "complex32"

\* the dtype of a Fourier transform of x
TransformDtype(dtype) ==
    CASE dtype = "float16" -> "complex32"
      [] dtype = "float32" -> "complex64"
      [] dtype = "float64" -> "complex128"
      [] OTHER -> dtype

Op(name, dtype) == [name |-> name, dtype |-> dtype]

\* mutant: in mode mixed the downcast comes before the transform
PrecisionOps_early(fno_block_precision, order, x_dtype) ==
    LET d1 == IF fno_block_precision \in {"half", "mixed"} THEN Half(x_dtype) ELSE x_dtype
        d2 == TransformDtype(d1)
    IN  (IF fno_block_precision \in {"half", "mixed"} THEN <<Op("half", d1)>> ELSE <<>>)
        \o <<Op("transform", d2)>>
        \o (IF order > 1 THEN <<Op("fftshift", d2)>> ELSE <<>>)
        \o <<Op("contract", d2)>>

\* lines 399-412 and 453: the operations on the activation up to the contraction
PrecisionOps(fno_block_precision, order, x_dtype) ==
    LET d1 == IF fno_block_precision = "half" THEN Half(x_dtype) ELSE x_dtype
        d2 == TransformDtype(d1)
        d3 == IF fno_block_precision = "mixed" THEN CHalf(d2) ELSE d2
    IN  (IF fno_block_precision = "half" THEN <<Op("half", d1)>> ELSE <<>>)
        \o <<Op("transform", d2)>>
        \o (IF order > 1 THEN <<Op("fftshift", d2)>> ELSE <<>>)
        \o (IF fno_block_precision = "mixed" THEN <<Op("chalf", d3)>> ELSE <<>>)
        \o <<Op("contract", d3)>>

\* lines 414-417: the dtype of out_fft
OutDtype(fno_block_precision) ==
    IF fno_block_precision \in {"half", "mixed"} THEN "complex32" ELSE "complex64"

\* mutant: every contraction uses the general einsum
ContractPrimitive_general(fun, x_dtype) ==
    IF fun = "_contract_dense_separable" THEN "mul" ELSE "tl.einsum"

\* the primitive a contraction function computes with (lines 42-46, 51,
\* 67-70, 98-101 and 127-130)
ContractPrimitive(fun, x_dtype) ==
    CASE fun = "_contract_dense" ->
             IF x_dtype = "complex32" THEN "einsum_complexhalf" ELSE "tl.einsum"
      [] fun = "_contract_dense_separable" -> "mul"
      [] fun = "_contract_cp" ->
             IF x_dtype = "complex32" THEN "einsum_complexhalf" ELSE "tl.einsum"
      [] fun = "_contract_tucker" ->
             IF x_dtype = "complex32" THEN "einsum_complexhalf" ELSE "tl.einsum"
      [] fun = "_contract_tt" ->
             IF x_dtype = "complex32" THEN "einsum_complexhalf" ELSE "tl.einsum"

\* forward on a layer of the given precision mode, followed up to the contraction
ForwardPrecision(fno_block_precision, order, x_dtype) ==
    /\ call = NoCall
    /\ call' = [op |-> "forward precision", fno_block_precision |-> fno_block_precision,
                order |-> order, x_dtype |-> x_dtype,
                ops |-> PrecisionOps(fno_block_precision, order, x_dtype),
                out_dtype |-> OutDtype(fno_block_precision)]
    /\ UNCHANGED <<layer, ctor, dispatch, ct, trainer>>

\* get_contract_fun(...)(x, weight, separable) for an activation of the given dtype
ContractPrecision(weight, implementation, separable, x_dtype) ==
    LET chosen == get_contract_fun(weight, implementation, separable)
    IN  /\ call = NoCall
        /\ chosen.error = NoError
        /\ call' = [op |-> "contract precision", weight |-> weight,
                    implementation |-> implementation, separable |-> separable,
                    fun |-> chosen.fun, x_dtype |-> x_dtype,
                    primitive |-> ContractPrimitive(chosen.fun, x_dtype)]
        /\ UNCHANGED <<layer, ctor, dispatch, ct, trainer>>

PrecisionModes == {"full", "half", "mixed"}

RealDtypes == {"float32", "float64"}

ComplexDtypes == {"complex32", "complex64", "complex128"}

NextPrecision ==
    \/ \E mode \in PrecisionModes, order \in 1 .. MaxAxes + 1, x_dtype \in RealDtypes \cup {"complex64"} :
           ForwardPrecision(mode, order, x_dtype)
    \/ \E w \in DispatchWeights, impl \in Implementations, s \in BOOLEAN, x_dtype \in ComplexDtypes :
           ContractPrecision(w, impl, s, x_dtype)
    \/ Return

SpecPrecision == Init /\ [][NextPrecision]_vars

(***************************************************************************)
(* One layer called at two resolutions.                                    *)
(***************************************************************************)
\* layers of one channel whose n_modes does not exceed max_n_modes
CapacityArgs ==
    {a \in LayerArgs :
        /\ a.in_channels = 1 /\ a.out_channels = 1 /\ ~a.bias /\ ~a.separable
        /\ WellFormed(a)
        /\ IF IsNone(a.max_n_modes) THEN TRUE
           ELSE LET n == n_modes_setter(a.complex_data, a.n_modes)
                    m == AsList(a.max_n_modes[1])
                IN  \A i \in 1 .. Len(n) : n[i] <= m[i]}

ResolutionShapes(L) == {<<1, L.in_channels>> \o sp : sp \in [1 .. L.order -> 1 .. MaxSize]}

NextResolutions ==
    \/ \E a \in CapacityArgs : Construct(a)
    \/ layer.constructed /\ \E x_shape \in ResolutionShapes(layer), y_shape \in ResolutionShapes(layer) :
            ForwardTwice(x_shape, y_shape)
    \/ Return

SpecResolutions == Init /\ [][NextResolutions]_vars

\* real layers of two axes with n_modes <= max_n_modes
ReferenceArgs == {a \in CapacityArgs : ~a.complex_data /\ Len(AsList(a.n_modes)) = 2}

NextReference ==
    \/ \E a \in ReferenceArgs : Construct(a)
    \/ layer.constructed /\ \E x_shape \in ResolutionShapes(layer) : ForwardBoth(x_shape)
    \/ Return

SpecReference == Init /\ [][NextReference]_vars

(***************************************************************************)
(* Resizing: forward and transform with an output shape or a scaling       *)
(* factor, called on the layer or through a SubConv view.                  *)
(***************************************************************************)
\* ratios 0.5, 1.0 and 1.5
Ratios == {1, 2, 3}

\* the usage sites a view may be bound to
Sites == {0, 1}

FlatFactors(k) == {ScalingFactor("flat", <<f>>) : f \in [1 .. k -> Ratios]}

\* two sites: the same ratio on every axis at site 0, any ratios at site 1
NestedFactors(k) ==
    {ScalingFactor("nested", <<[i \in 1 .. k |-> r], f>>) : r \in Ratios, f \in [1 .. k -> Ratios]}

ResizeModes == {IntArg(2), ListArg(<<MaxModes>>), ListArg(<<2, 2>>), ListArg(<<MaxModes, 2>>)}

ResizeArgs ==
    LET plain == {CtorArgs(1, 1, n, None, FALSE, FALSE, None, "reconstructed", c, FALSE) :
                    n \in ResizeModes, c \in BOOLEAN}
    IN  plain \cup
        {WithScaling(a, f) :
            a \in plain, f \in UNION {FlatFactors(k) \cup NestedFactors(k) : k \in Orders}}

\* the factor has one ratio per axis of the layer
ScalingWellFormed(a) ==
    IF IsNone(a.output_scaling_factor) THEN TRUE
    ELSE LET f == a.output_scaling_factor[1]
             k == Len(AsList(a.n_modes))
         IN  Len(f.rows[1]) = k

\* inputs and requested shapes with spatial sizes MaxSize - 1 and MaxSize
ResizeSizes(L) == [1 .. L.order -> {MaxSize - 1, MaxSize}]

ResizeShapes(L) == {<<1, L.in_channels>> \o sp : sp \in ResizeSizes(L)}

OutputShapes(L) ==
    {None} \cup {Some(PyTuple(sp)) : sp \in ResizeSizes(L)}
           \cup {Some(PyList(sp)) : sp \in ResizeSizes(L)}

NextResize ==
    \/ \E a \in {a \in ResizeArgs : ScalingWellFormed(a)} : Construct(a)
    \/ layer.constructed /\ \E x_shape \in ResizeShapes(layer), output_shape \in OutputShapes(layer) :
            ForwardTo(x_shape, output_shape)
    \/ layer.constructed /\ \E x_shape \in ResizeShapes(layer), layer_index \in Sites,
                               output_shape \in OutputShapes(layer) :
            Transform(x_shape, layer_index, output_shape)
    \/ layer.constructed /\ \E indices \in Sites, x_shape \in ResizeShapes(layer) :
            \E kwargs \in {None, Some(PyTuple(From(x_shape, 2)))} :
                SubConvForward(indices, x_shape, kwargs)
    \/ layer.constructed /\ \E indices \in Sites, x_shape \in ResizeShapes(layer),
                               kwargs \in OutputShapes(layer) :
            SubConvTransform(indices, x_shape, kwargs)
    \/ layer.constructed /\ \E x_shape \in ResizeShapes(layer), layer_index \in Sites,
                               output_shape \in OutputShapes(layer) :
            ForwardAndTransform(x_shape, layer_index, output_shape)
    \/ Return

SpecResize == Init /\ [][NextResize]_vars

(***************************************************************************)
(* Trainer.train.  pc is the position in the body of train; the lists      *)
(* trained, evaluated and checkpoints record the calls of train_one_epoch, *)
(* evaluate and checkpoint in the order they are made.                     *)
(***************************************************************************)
\* the keys of the metrics collected from test_loaders and eval_losses
\* (lines 127-129, with one evaluation loss l2)
MetricKey(loader_name) == <<loader_name, "l2">>

\* mutant: the interval is kept when a metric is monitored
SelfSaveEvery_kept(save_every, save_best) == save_every

\* lines 120 and 134: the value of self.save_every during training
SelfSaveEvery(save_every, save_best) ==
    IF ~IsNone(save_best) THEN None ELSE save_every

\* lines 435-438
CheckpointName(save_best) == IF ~IsNone(save_best) THEN "best_model" ELSE "model"

\* line 146
EvalDue(epoch, eval_interval) == epoch % eval_interval = 0

\* mutant: a value equal to the best one counts as an improvement
Improves_tie(value, best) == IF IsNone(best) THEN TRUE ELSE value <= best[1]

\* the value of best_metric_value: None stands for float('inf')
Improves(value, best) == IF IsNone(best) THEN TRUE ELSE value < best[1]

AssertionError(site, args) == [type |-> "AssertionError", site |-> site, args |-> args]

UnboundLocalError(site, args) == [type |-> "UnboundLocalError", site |-> site, args |-> args]

\* Trainer(model=..., n_epochs=..., eval_interval=...)
TrainerInit(n_epochs, eval_interval) ==
    /\ trainer = NoTrainer
    /\ trainer' = [pc |-> "constructed", n_epochs |-> n_epochs, eval_interval |-> eval_interval]
    /\ UNCHANGED <<layer, ctor, call, dispatch, ct>>

\* trainer.train(train_loader, test_loaders, ..., save_every, save_best): the
\* statements before the loop (lines 113-134)
Train(test_loaders, save_every, save_best) ==
    LET metrics == {MetricKey(name) : name \in test_loaders}
        rejected == IF IsNone(save_best) THEN FALSE ELSE save_best[1] \notin metrics
    IN  /\ trainer.pc = "constructed"
        /\ trainer' =
               [n_epochs |-> trainer.n_epochs, eval_interval |-> trainer.eval_interval,
                test_loaders |-> test_loaders,
                save_every_arg |-> save_every, save_best |-> save_best,
                save_every |-> IF rejected THEN save_every ELSE SelfSaveEvery(save_every, save_best),
                best_metric_value |-> None,
                epoch |-> 0, all_metrics |-> None,
                trained |-> <<>>, evaluated |-> <<>>, checkpoints |-> <<>>,
                \* the metrics gathered by each evaluation so far
                history |-> <<>>,
                result |-> None,
                error |-> IF rejected THEN AssertionError("save_best", <<save_best[1]>>) ELSE NoError,
                pc |-> IF rejected THEN "raised"
                       ELSE IF trainer.n_epochs > 0 THEN "train_one_epoch" ELSE "return"]
        /\ UNCHANGED <<layer, ctor, call, dispatch, ct>>

\* lines 143-146: train_one_epoch, then the test of the evaluation interval
TrainOneEpoch ==
    /\ trainer.pc = "train_one_epoch"
    /\ trainer' = [trainer EXCEPT
                      !.trained = Append(@, trainer.epoch),
                      !.pc = IF EvalDue(trainer.epoch, trainer.eval_interval)
                             THEN "evaluate" ELSE "save"]
    /\ UNCHANGED <<layer, ctor, call, dispatch, ct>>

\* lines 147-173: every loader is evaluated, the metrics are gathered and the
\* monitored metric, when it improved, triggers a checkpoint; values gives
\* the loss that evaluate returns for each loader
Evaluate(values) ==
    LET epoch == trainer.epoch
        loaders == trainer.test_loaders
        all_metrics == [key \in {MetricKey(name) : name \in loaders} |-> values[key[1]]]
        monitored == ~IsNone(trainer.save_best)
        improved == IF monitored
                    THEN Improves(all_metrics[trainer.save_best[1]], trainer.best_metric_value)
                    ELSE FALSE
    IN  /\ trainer.pc = "evaluate"
        /\ trainer' = [trainer EXCEPT
                          !.evaluated = Append(@, [epoch |-> epoch, loaders |-> loaders]),
                          !.all_metrics = Some([epoch |-> epoch, metrics |-> all_metrics]),
                          !.history = Append(@, [epoch |-> epoch, metrics |-> all_metrics]),
                          !.best_metric_value =
                              IF improved THEN Some(all_metrics[trainer.save_best[1]]) ELSE @,
                          !.checkpoints =
                              IF improved
                              THEN Append(@, [epoch |-> epoch, rule |-> "best",
                                              save_name |-> CheckpointName(trainer.save_best)])
                              ELSE @,
                          !.pc = "save"]
        /\ UNCHANGED <<layer, ctor, call, dispatch, ct>>

\* lines 176-179, then the next iteration of the loop
IntervalSave ==
    LET epoch == trainer.epoch
        due == IF IsNone(trainer.save_every) THEN FALSE
               ELSE epoch % trainer.save_every[1] = 0
    IN  /\ trainer.pc = "save"
        /\ trainer' = [trainer EXCEPT
                          !.checkpoints =
                              IF due
                              THEN Append(@, [epoch |-> epoch, rule |-> "interval",
                                              save_name |-> CheckpointName(trainer.save_best)])
                              ELSE @,
                          !.epoch = epoch + 1,
                          !.pc = IF epoch + 1 < trainer.n_epochs THEN "train_one_epoch" ELSE "return"]
        /\ UNCHANGED <<layer, ctor, call, dispatch, ct>>

\* line 181: return all_metrics, a name bound only by an evaluation
TrainReturn ==
    /\ trainer.pc = "return"
    /\ trainer' = IF IsNone(trainer.all_metrics)
                  THEN [trainer EXCEPT !.pc = "raised",
                                       !.error = UnboundLocalError("all_metrics", <<>>)]
                  ELSE [trainer EXCEPT !.pc = "returned",
                                       !.result = Some(trainer.all_metrics[1].metrics)]
    /\ UNCHANGED <<layer, ctor, call, dispatch, ct>>

Intervals == {1, 2, 3}

LoaderNames == {"16", "32"}

\* the losses evaluate may return
Losses == {1, 2, 3}

\* the values of save_best: none, a collected metric, a metric that is not collected
MonitoredMetrics == {None, Some(MetricKey("16")), Some(MetricKey("64"))}

NextTrain ==
    \/ \E n_epochs \in 0 .. MaxEpochs, eval_interval \in Intervals :
           TrainerInit(n_epochs, eval_interval)
    \/ \E test_loaders \in {{"16"}, LoaderNames}, save_every \in {None} \cup {Some(n) : n \in Intervals},
          save_best \in MonitoredMetrics :
           Train(test_loaders, save_every, save_best)
    \/ TrainOneEpoch
    \/ \E loss \in Losses : Evaluate([name \in LoaderNames |-> IF name = "16" THEN loss ELSE 1])
    \/ IntervalSave
    \/ TrainReturn

SpecTrain == Init /\ [][NextTrain]_vars

(***************************************************************************)
(* Claims.                                                                 *)
(***************************************************************************)
\* C1: at all times after construction, n_modes[axis] <= max_n_modes[axis] on
\* every axis (a request above max_n_modes is rejected or clipped)
CapacityInvariant ==
    layer.constructed =>
        \A axis \in 1 .. Len(layer.n_modes) : layer.n_modes[axis] <= layer.max_n_modes[axis]

SeparableCheck ==
    ctor.called =>
        LET in_channels == ctor.args[1]
            out_channels == ctor.args[2]
            separable == ctor.args[3]
        IN  IF separable /\ in_channels # out_channels
            THEN /\ ctor.error = ValueError("separable", <<in_channels, out_channels>>)
                 /\ \A i \in 1 .. Len(ctor.ops) : ctor.ops[i] \notin {"weight_shape", "new_weight", "normal_"}
                 /\ ~layer.constructed
            ELSE ctor.error.site # "separable"

SeparableCheckWitness ==
    /\ ctor.called
    /\ ctor.args[3]
    /\ ctor.args[1] = 1
    /\ ctor.args[2] = 2
    /\ ctor.error.type = "ValueError"
    /\ ~layer.constructed

\* C9: an implementation string other than "reconstructed" and "factorized"
\* makes get_contract_fun raise a ValueError and return no function, whatever
\* the weight and separable are, and makes the constructor fail the same way
UnknownImplementation ==
    /\ (dispatch.called /\ dispatch.implementation \notin {"reconstructed", "factorized"}) =>
           /\ dispatch.result.error.type = "ValueError"
           /\ dispatch.result.fun = ""
    /\ (ctor.called /\ ctor.args[4] \notin {"reconstructed", "factorized"}) =>
           /\ ctor.error.type = "ValueError"
           /\ ~layer.constructed

UnknownImplementationWitness ==
    /\ ctor.called
    /\ ctor.args[4] = "Factorized"
    /\ ~ctor.args[3]
    /\ ctor.error = ValueError("implementation", <<"Factorized">>)
    /\ dispatch.called
    /\ dispatch.implementation = "dense"
    /\ dispatch.weight.name = StrTucker
    /\ dispatch.result.error.type = "ValueError"

Abs(n) == IF n < 0 THEN -n ELSE n

\* the signed frequency of index j of a transformed axis of size n: a full
\* transform stores 0, 1, ... and then the negative frequencies; the last axis
\* of a real transform stores 0 .. n - 1
Frequency(j, n, one_sided) ==
    IF one_sided THEN j
    ELSE IF j <= (n - 1) \div 2 THEN j ELSE j - n

ForwardDone == call.op = "forward" /\ call.error = NoError

WithinCapacity ==
    \A axis \in 1 .. Len(layer.n_modes) :
        1 <= layer.n_modes[axis] /\ layer.n_modes[axis] <= layer.max_n_modes[axis]

\* the input coefficients, by their index on one axis, that the call retained
Retained(axis) ==
    {call.scattered[t].src[axis] : t \in {u \in DOMAIN call.scattered : ~call.scattered[u].zero}}

\* the index a position of the shifted output buffer had before the shift
BeforeOutputShift(t) ==
    [i \in 1 .. Len(t) |->
        IF call.shifted /\ i < Len(t)
        THEN (t[i] - (call.fft_size[i] \div 2)) % call.fft_size[i]
        ELSE t[i]]

\* C3 as stated: when n_modes is below the transformed size on some axis, every
\* position of the output buffer outside the activation window is zero when
\* the inverse transform is applied
ZeroOutsideWindowAtInverse ==
    (/\ ForwardDone
     /\ \E axis \in 1 .. Len(call.fft_size) : layer.n_modes[axis] < call.fft_size[axis]) =>
        \A t \in DOMAIN call.out_fft :
            ~InWindow(t, call.slices_x, call.fft_size) => call.out_fft[t].zero

\* C3 (amended): when n_modes is below the transformed size on some axis, every
\* position outside the activation window is zero right after the contraction
\* is written, only positions inside it hold a contraction result, and when
\* the inverse transform is applied the non-zero positions are those of the
\* window moved by the output shift (size // 2 on every axis but the last when
\* order > 1)
ZeroOutsideWindow ==
    (/\ ForwardDone
     /\ \E axis \in 1 .. Len(call.fft_size) : layer.n_modes[axis] < call.fft_size[axis]) =>
        /\ \A t \in DOMAIN call.scattered :
               call.scattered[t].zero <=> ~InWindow(t, call.slices_x, call.fft_size)
        /\ \A t \in DOMAIN call.out_fft :
               call.out_fft[t].zero <=>
                   ~InWindow(BeforeOutputShift(t), call.slices_x, call.fft_size)

ZeroOutsideWindowWitness ==
    /\ ForwardDone
    /\ call.fft_size = <<4, 3>>
    /\ layer.n_modes = <<2, 2>>
    /\ call.scattered[<<0, 0>>].zero
    /\ ~call.out_fft[<<0, 0>>].zero
    /\ call.out_fft[<<1, 0>>].zero

\* C4: on every axis where 1 <= n_modes < transformed size, the retained
\* coefficients include the zero frequency and no discarded coefficient has a
\* smaller absolute frequency than a retained one
LowFrequenciesKept ==
    (ForwardDone /\ WithinCapacity) =>
        \A axis \in 1 .. Len(call.fft_size) :
            layer.n_modes[axis] < call.fft_size[axis] =>
                LET n == call.fft_size[axis]
                    one_sided == ~layer.complex_data /\ axis = Len(call.fft_size)
                    kept == Retained(axis)
                IN  /\ \E j \in kept : Frequency(j, n, one_sided) = 0
                    /\ \A j \in kept : \A d \in (0 .. n - 1) \ kept :
                           Abs(Frequency(d, n, one_sided)) >= Abs(Frequency(j, n, one_sided))

\* C5: with one input and one output channel, no bias and
\* n_modes = max_n_modes = the transformed size on every axis, every cell of
\* the buffer given to the inverse transform holds the input coefficient of
\* its own index
RoundTrip ==
    (/\ ForwardDone
     /\ layer.in_channels = 1
     /\ layer.out_channels = 1
     /\ ~layer.bias
     /\ layer.n_modes = call.fft_size
     /\ layer.max_n_modes = call.fft_size) =>
        \A t \in DOMAIN call.out_fft :
            ~call.out_fft[t].zero /\ call.out_fft[t].src = t

\* C6: forward on an input (batch, in_channels, d_1 .. d_k) raises nothing and
\* returns a tensor of shape (batch, out_channels, d_1 .. d_k), for
\* separable = False whatever in_channels is and for separable = True
OutputShape ==
    call.op = "forward" =>
        /\ call.error = NoError
        /\ call.result_shape = <<call.x_shape[1], layer.out_channels>> \o From(call.x_shape, 2)

OutputShapeWitness ==
    /\ ForwardDone
    /\ layer.in_channels = 3
    /\ layer.out_channels = 4
    /\ ~layer.separable
    /\ layer.n_modes = <<8, 5>>
    /\ call.x_shape = <<2, 3, 16, 16>>
    /\ call.result_shape = <<2, 4, 16, 16>>


\* C13: assigning back the value read from n_modes leaves every axis but the
\* last as it was and turns the last count a into a // 2 + 1 for real data and
\* into a for complex data; the list is unchanged exactly when the data is
\* complex or a // 2 + 1 = a
ReadThenWrite ==
    (layer.constructed /\ call.op = "reassign") =>
        LET before == call.arg.val
            k == Len(before)
            a == before[k]
        IN  /\ Len(layer.n_modes) = k
            /\ \A i \in 1 .. k - 1 : layer.n_modes[i] = before[i]
            /\ layer.n_modes[k] = IF layer.complex_data THEN a ELSE (a \div 2) + 1
            /\ (layer.n_modes = before) <=> (layer.complex_data \/ (a \div 2) + 1 = a)

ReadThenWriteWitness ==
    /\ layer.constructed
    /\ call.op = "reassign"
    /\ ~layer.complex_data
    /\ call.arg = ListArg(<<8, 5>>)
    /\ layer.n_modes = <<8, 3>>

\* C14: on every axis, the count stored for an odd requested value m is the
\* count stored for one of the even values m - 1 and m + 1
OddModesRounded ==
    (layer.constructed /\ call.op \in {"init", "set"}) =>
        LET requested == AsList(call.arg)
        IN  \A axis \in 1 .. Len(requested) :
                requested[axis] % 2 = 1 =>
                    \E even \in {requested[axis] - 1, requested[axis] + 1} :
                        layer.n_modes[axis] =
                            n_modes_setter(layer.complex_data,
                                           ListArg([requested EXCEPT ![axis] = even]))[axis]

\* the entries of the weight that the window of a forward call leaves out at
\* the low end and at the high end of a spatial axis
DroppedLow(axis) == SliceLo(call.slices_w[axis], layer.max_n_modes[axis])

DroppedHigh(axis) == layer.max_n_modes[axis] - SliceHi(call.slices_w[axis], layer.max_n_modes[axis])

\* the axes windowed by slice(start//2, -start//2): all for complex data, all
\* but the last for real data
SymmetricAxes ==
    {axis \in 1 .. Len(call.starts_w) : layer.complex_data \/ axis < Len(call.starts_w)}

\* C17 as stated: for every offset max_n_modes - min(size, n_modes) >= 0, the
\* weight window drops as many entries at the low end as at the high end on
\* the symmetric axes, and is [0, max_n_modes - offset) on the last axis of
\* real data
WeightWindowSymmetric ==
    call.op = "forward" =>
        \A axis \in 1 .. Len(call.starts_w) :
            call.starts_w[axis] >= 0 =>
                IF axis \in SymmetricAxes
                THEN DroppedLow(axis) = DroppedHigh(axis)
                ELSE /\ DroppedLow(axis) = 0
                     /\ DroppedHigh(axis) = call.starts_w[axis]

\* C17 (amended): for every offset >= 0 the weight window on a symmetric axis
\* drops offset // 2 entries at the low end and offset - offset // 2 at the
\* high end (the same number exactly when the offset is even, one more at the
\* high end when it is odd); on the last axis of real data it is
\* [0, max_n_modes - offset)
WeightWindowCentred ==
    call.op = "forward" =>
        \A axis \in 1 .. Len(call.starts_w) :
            LET offset == call.starts_w[axis]
            IN  offset >= 0 =>
                    IF axis \in SymmetricAxes
                    THEN /\ DroppedLow(axis) = offset \div 2
                         /\ DroppedHigh(axis) = offset - (offset \div 2)
                         /\ (DroppedLow(axis) = DroppedHigh(axis)) <=> (offset % 2 = 0)
                    ELSE /\ DroppedLow(axis) = 0
                         /\ DroppedHigh(axis) = offset

WeightWindowCentredWitness ==
    /\ call.op = "forward"
    /\ layer.complex_data
    /\ layer.max_n_modes = <<3, 3>>
    /\ call.starts_w = <<1, 2>>
    /\ DroppedLow(1) = 0
    /\ DroppedHigh(1) = 1
    /\ DroppedLow(2) = 1
    /\ DroppedHigh(2) = 1

\* C18: when 1 <= n_modes <= max_n_modes on every axis, forward raises nothing
\* and on every spatial axis the weight window and the activation window both
\* have min(transformed size, n_modes) entries and lie inside their tensors
WindowsAgree ==
    (call.op = "forward" /\ WithinCapacity) =>
        /\ call.error = NoError
        /\ Len(call.slices_w) = Len(call.fft_size)
        /\ Len(call.slices_x) = Len(call.fft_size)
        /\ \A axis \in 1 .. Len(call.fft_size) :
               LET size == call.fft_size[axis]
                   kept == Min(size, layer.n_modes[axis])
                   sw == call.slices_w[axis]
                   sx == call.slices_x[axis]
                   cap == layer.max_n_modes[axis]
               IN  /\ SliceLen(sw, cap) = kept
                   /\ SliceLen(sx, size) = kept
                   /\ call.w_shape[Len(call.w_shape) - Len(call.fft_size) + axis] = kept
                   /\ call.x_win[2 + axis] = kept
                   /\ 0 <= SliceLo(sw, cap) /\ SliceHi(sw, cap) <= cap
                   /\ 0 <= SliceLo(sx, size) /\ SliceHi(sx, size) <= size

WindowsAgreeWitness ==
    /\ ForwardDone
    /\ WithinCapacity
    /\ layer.max_n_modes = <<3, 3>>
    /\ layer.n_modes = <<2, 2>>
    /\ call.fft_size = <<4, 3>>
    /\ call.starts_w = <<1, 1>>
    /\ call.starts_x = <<2, 1>>

\* C19: when the inverse transform is applied, every coefficient of the output
\* buffer sits, on each shifted axis, at the index its input coefficient had
\* right after the forward transform
OutputShiftReverses ==
    ForwardDone =>
        \A t \in DOMAIN call.out_fft :
            ~call.out_fft[t].zero =>
                \A axis \in ShiftAxes(layer.order) : call.out_fft[t].src[axis] = t[axis]

\* the spatial sizes a call at usage site i is to produce when no output shape
\* is given: the input sizes, scaled by the site's ratios when a scaling
\* factor is configured
SiteSizes(L, x_shape, site) ==
    LET sizes == From(x_shape, 2)
        f == L.output_scaling_factor
    IN  IF IsNone(f) THEN sizes
        ELSE ScaledSizes(sizes, IF f[1].form = "flat" THEN f[1].rows[1] ELSE f[1].rows[site + 1])

\* C11: a view bound to site i forwards forward(x) to the layer's forward with
\* no output shape, the result being the one for site i, and forwards
\* transform(x) to the layer's transform with layer_index = i; the index is
\* never taken as an output shape
SubConvBindsSite ==
    /\ (call.op = "SubConv.forward" /\ IsNone(call.kwargs)) =>
           /\ call.inner.output_shape = None
           /\ call.inner.error = NoError
           /\ call.inner.result_shape =
                  <<call.inner.x_shape[1], layer.out_channels>>
                  \o SiteSizes(layer, call.inner.x_shape, call.indices)
    /\ call.op = "SubConv.transform" =>
           /\ call.inner.layer_index = call.indices
           /\ call.inner.output_shape = call.kwargs

\* the target of transform: output_shape when given, else the input sizes
\* scaled by the ratios of the site, else the input sizes
TransformTarget ==
    IF ~IsNone(call.output_shape) THEN call.output_shape[1].val
    ELSE SiteSizes(layer, call.x_shape, call.layer_index)

\* C12: a transform call that raises nothing has the target above; it returns
\* x without resampling when the target equals the input's spatial shape and
\* resamples to the target exactly when they differ
TransformSkipsResample ==
    (call.op = "transform" /\ call.error = NoError) =>
        /\ call.out_shape.val = TransformTarget
        /\ call.resampled <=> (TransformTarget # From(call.x_shape, 2))
        /\ call.result_shape = SubSeq(call.x_shape, 1, 2) \o TransformTarget

Training ==
    /\ trainer.pc \notin {"none", "constructed"}
    /\ trainer.error.type # "AssertionError"

\* the epochs whose iteration of the loop is complete
EpochsDone == 0 .. trainer.epoch - 1

\* C15: with save_best set, self.save_every is None, every checkpoint is
\* written by the monitored-metric rule in an epoch that was evaluated and is
\* named best_model; with save_best unset and save_every = n, every checkpoint
\* is named model and one is written in each epoch e with e % n = 0 and none
\* in any other epoch
CheckpointPolicy ==
    Training =>
        LET ck == trainer.checkpoints
        IN  /\ ~IsNone(trainer.save_best) =>
                   /\ IsNone(trainer.save_every)
                   /\ \A i \in 1 .. Len(ck) :
                          /\ ck[i].rule = "best"
                          /\ ck[i].save_name = "best_model"
                          /\ \E j \in 1 .. Len(trainer.evaluated) :
                                 trainer.evaluated[j].epoch = ck[i].epoch
            /\ (IsNone(trainer.save_best) /\ ~IsNone(trainer.save_every_arg)) =>
                   /\ \A i \in 1 .. Len(ck) :
                          /\ ck[i].rule = "interval"
                          /\ ck[i].save_name = "model"
                          /\ ck[i].epoch \in EpochsDone
                   /\ \A e \in EpochsDone :
                          Cardinality({i \in 1 .. Len(ck) : ck[i].epoch = e})
                              = IF e % trainer.save_every_arg[1] = 0 THEN 1 ELSE 0

CheckpointPolicyWitness ==
    /\ trainer.pc = "returned"
    /\ trainer.n_epochs = 3
    /\ trainer.eval_interval = 2
    /\ trainer.save_best = Some(MetricKey("16"))
    /\ trainer.save_every_arg = Some(1)
    /\ Len(trainer.checkpoints) = 2
    /\ trainer.checkpoints[2].epoch = 2
    /\ trainer.checkpoints[2].save_name = "best_model"

\* C16: the epochs 0, 1, ... are trained in order, every test loader is
\* evaluated in the epochs e with e % eval_interval = 0 and in no other, and
\* for every n_epochs >= 0 train returns, its value being the metrics of the
\* last evaluation
EvaluationSchedule ==
    Training =>
        LET ev == trainer.evaluated
        IN  /\ trainer.trained = [i \in 1 .. Len(trainer.trained) |-> i - 1]
            /\ \A j \in 1 .. Len(ev) :
                   /\ ev[j].epoch % trainer.eval_interval = 0
                   /\ ev[j].loaders = trainer.test_loaders
                   /\ j > 1 => ev[j - 1].epoch < ev[j].epoch
            /\ \A e \in EpochsDone :
                   e % trainer.eval_interval = 0 => \E j \in 1 .. Len(ev) : ev[j].epoch = e
            /\ trainer.pc \in {"return", "returned", "raised"} =>
                   Len(trainer.trained) = trainer.n_epochs
            /\ trainer.pc # "raised"
            /\ trainer.pc = "returned" =>
                   /\ trainer.all_metrics[1].epoch = ev[Len(ev)].epoch
                   /\ trainer.result = Some(trainer.all_metrics[1].metrics)

\* the non-zero cells of the buffer a forward call wrote
Written(frame) == {frame.scattered[t] : t \in {u \in DOMAIN frame.scattered : ~frame.scattered[u].zero}}

\* the signed frequency, on one axis, of the input coefficient of a cell
CellFrequency(frame, cell, axis) ==
    Frequency(cell.src[axis], frame.fft_size[axis],
              ~layer.complex_data /\ axis = Len(frame.fft_size))

\* C21: for a layer with n_modes <= max_n_modes called at two input sizes, on
\* every spatial axis a coefficient of the same signed frequency retained in
\* both calls meets the same weight entry in both calls
OneWeightEveryResolution ==
    (/\ call.op = "forward twice"
     /\ WithinCapacity
     /\ call.first.error = NoError
     /\ call.second.error = NoError) =>
        \A axis \in 1 .. layer.order :
            \A a \in Written(call.first), b \in Written(call.second) :
                CellFrequency(call.first, a, axis) = CellFrequency(call.second, b, axis)
                    => a.w[axis] = b.w[axis]

\* C25: forward produces the spatial shape output_shape when it is given,
\* else the input sizes scaled by the ratios of the usage site when a scaling
\* factor is configured, else the input sizes; transform computes the same
\* target for the same input, site and arguments
OutputResolution ==
    call.op = "forward and transform" =>
        LET target == IF ~IsNone(call.output_shape) THEN call.output_shape[1].val
                      ELSE SiteSizes(layer, call.x_shape, call.layer_index)
        IN  /\ call.forward.error = NoError
            /\ call.forward.result_shape = <<call.x_shape[1], layer.out_channels>> \o target
            /\ call.transform.error = NoError
            /\ call.transform.out_shape.val = target

\* C26: however often n_modes is assigned after construction, max_n_modes
\* keeps the value it had when the layer was built, also when it was left as
\* None and is the list first bound to n_modes; the weight keeps its shape; the
\* lists of the caller keep their values
NModesAssignmentFrame ==
    layer.constructed =>
        /\ layer.heap[layer.max_n_modes_ref] = layer.max_at_init
        /\ layer.weight_shape = WeightShape(FALSE, 1, 1, layer.max_at_init)
        /\ \A a \in CallerAddrs : layer.heap[a] = layer.caller_lists[a]
        /\ layer.n_modes_ref \notin CallerAddrs

NModesAssignmentWitness ==
    /\ layer.constructed
    /\ layer.max_was_none
    /\ ~layer.complex_data
    /\ layer.n_modes_ref # layer.max_n_modes_ref
    /\ layer.max_at_init = <<MaxModes, 2>>
    /\ layer.heap[layer.n_modes_ref] = <<1, 1>>
    /\ layer.heap[layer.max_n_modes_ref] = <<MaxModes, 2>>

\* the values of the monitored metric in the evaluations so far
MonitoredValues ==
    [i \in 1 .. Len(trainer.history) |-> trainer.history[i].metrics[trainer.save_best[1]]]

\* C28: with save_best = m among the collected metrics, the tracked best
\* value is the smallest value of m evaluated so far (so it never increases),
\* and a checkpoint is written in epoch e exactly when an evaluation ran in e
\* and the value of m was strictly below its value in every earlier
\* evaluation; with m not of the form <loader_name>_<loss_name> train raises
\* an assertion error before any epoch runs
BestMetricPolicy ==
    (trainer.pc \notin {"none", "constructed"} /\ ~IsNone(trainer.save_best)) =>
        IF trainer.save_best[1] \in {MetricKey(name) : name \in trainer.test_loaders}
        THEN /\ trainer.error.type # "AssertionError"
             /\ \A i \in 1 .. Len(trainer.history) :
                    (\E k \in 1 .. Len(trainer.checkpoints) :
                        trainer.checkpoints[k].epoch = trainer.history[i].epoch)
                    <=> \A j \in 1 .. i - 1 : MonitoredValues[i] < MonitoredValues[j]
             /\ \A k \in 1 .. Len(trainer.checkpoints) :
                    \E i \in 1 .. Len(trainer.history) :
                        trainer.history[i].epoch = trainer.checkpoints[k].epoch
             /\ IF trainer.history = <<>> THEN IsNone(trainer.best_metric_value)
                ELSE /\ ~IsNone(trainer.best_metric_value)
                     /\ \E i \in 1 .. Len(trainer.history) :
                            trainer.best_metric_value[1] = MonitoredValues[i]
                     /\ \A i \in 1 .. Len(trainer.history) :
                            trainer.best_metric_value[1] <= MonitoredValues[i]
        ELSE /\ trainer.pc = "raised"
             /\ trainer.error.type = "AssertionError"
             /\ trainer.trained = <<>>
             /\ trainer.history = <<>>
             /\ trainer.checkpoints = <<>>

\* three evaluations gave 2, 2 and 1: checkpoints in epochs 0 and 2, none for the tie
BestMetricPolicyWitness ==
    /\ Training
    /\ ~IsNone(trainer.save_best)
    /\ Len(trainer.history) = 3
    /\ MonitoredValues = <<2, 2, 1>>
    /\ [k \in 1 .. Len(trainer.checkpoints) |-> trainer.checkpoints[k].epoch] = <<0, 2>>
    /\ trainer.best_metric_value = Some(1)

\* the positions in the log of a call of an epoch and a batch
Pos(name, epoch, idx) ==
    {k \in 1 .. Len(trainer.log) :
        trainer.log[k].name = name /\ trainer.log[k].epoch = epoch /\ trainer.log[k].idx = idx}

Once(name, epoch, idx) == Cardinality(Pos(name, epoch, idx)) = 1

At(name, epoch, idx) == CHOOSE k \in Pos(name, epoch, idx) : TRUE

\* the batches of an epoch that have been trained on
BatchesDone(epoch) ==
    IF epoch < trainer.epoch \/ trainer.pc \in {"evaluate", "eval_one_batch"}
    THEN Len(trainer.train_loader)
    ELSE IF trainer.pc = "train_one_batch" THEN trainer.idx ELSE 0

\* the epochs whose training pass is over
PassesDone ==
    IF trainer.pc \in {"evaluate", "eval_one_batch"} THEN 0 .. trainer.epoch
    ELSE 0 .. trainer.epoch - 1

\* C29: in every batch of a training epoch the gradients are zeroed (and the
\* regularizer reset) before the forward pass, then the loss is computed,
\* then backward runs, then optimizer.step runs, each once, and all before
\* the next batch starts; scheduler.step runs once per epoch, after the last
\* batch; every average divides by the number of samples of its own pass
EpochOrder ==
    trainer.pc # "none" =>
        /\ \A e \in 0 .. trainer.n_epochs - 1 : \A i \in 0 .. Len(trainer.train_loader) - 1 :
               IF e <= trainer.epoch /\ i < BatchesDone(e)
               THEN /\ \A name \in {"zero_grad", "forward", "loss", "backward", "optimizer.step"} :
                          Once(name, e, i)
                    /\ At("zero_grad", e, i) < At("forward", e, i)
                    /\ At("forward", e, i) < At("loss", e, i)
                    /\ At("loss", e, i) < At("backward", e, i)
                    /\ At("backward", e, i) < At("optimizer.step", e, i)
                    /\ IF trainer.regularizer
                       THEN /\ Once("regularizer.reset", e, i)
                            /\ At("regularizer.reset", e, i) < At("forward", e, i)
                       ELSE Pos("regularizer.reset", e, i) = {}
                    /\ \A k \in 1 .. Len(trainer.log) :
                          (/\ trainer.log[k].epoch = e
                           /\ trainer.log[k].idx > i
                           /\ trainer.log[k].name \in {"zero_grad", "regularizer.reset", "forward",
                                                       "loss", "backward", "optimizer.step"})
                              => At("optimizer.step", e, i) < k
               ELSE \A name \in {"zero_grad", "regularizer.reset", "forward", "loss", "backward",
                                  "optimizer.step"} : Pos(name, e, i) = {}
        /\ \A e \in 0 .. trainer.n_epochs - 1 :
               IF e \in PassesDone
               THEN /\ Once("scheduler.step", e, -1)
                    /\ At("optimizer.step", e, Len(trainer.train_loader) - 1) < At("scheduler.step", e, -1)
               ELSE Pos("scheduler.step", e, -1) = {}
        /\ \A k \in 1 .. Len(trainer.log) :
               /\ trainer.log[k].name = "train average" =>
                      trainer.log[k].value = SumSeq(trainer.train_loader)
               /\ trainer.log[k].name = "eval average" =>
                      trainer.log[k].value = SumSeq(trainer.test_loader)

\* two epochs on loaders of different sizes, with a regularizer
EpochOrderWitness ==
    /\ trainer.pc = "done"
    /\ trainer.n_epochs = 2
    /\ trainer.regularizer
    /\ trainer.train_loader = <<BatchSize, 1>>
    /\ trainer.test_loader = <<BatchSize>>
    /\ Once("scheduler.step", 1, -1)
    /\ At("optimizer.step", 1, 0) < At("zero_grad", 1, 1)
    /\ \E k \in 1 .. Len(trainer.log) :
           /\ trainer.log[k] = Event("train average", 1, -1, BatchSize + 1)
           /\ trainer.log[k - 1] = Event("scheduler.step", 1, -1, 0)

\* the input has even sizes, and n_modes is the stored form of even mode
\* counts that exceed neither max_n_modes nor the input sizes
EvenCase ==
    /\ call.op = "forward both"
    /\ WithinCapacity
    /\ call.x_shape[3] % 2 = 0 /\ call.x_shape[4] % 2 = 0
    /\ layer.n_modes[1] % 2 = 0 /\ layer.n_modes[1] <= call.x_shape[3]
    /\ layer.n_modes[2] >= 2 /\ 2 * (layer.n_modes[2] - 1) <= call.x_shape[4]

\* C30: in the even case SpectralConv2d and SpectralConv raise nothing and
\* fill the output spectrum alike: the same coefficients are retained, each
\* multiplied by the same weight entry
ReferenceAgrees ==
    EvenCase =>
        /\ call.general.error = NoError
        /\ call.reference.error = NoError
        /\ call.general.out_fft = call.reference.out_fft

\* the position of an operation in the frame of a forward call, 0 when absent
OpIndex(name) ==
    IF \E i \in 1 .. Len(call.ops) : call.ops[i].name = name
    THEN CHOOSE i \in 1 .. Len(call.ops) : call.ops[i].name = name
    ELSE 0

\* the dtype of the activation when the operation at position i starts
DtypeBefore(i) == IF i = 1 THEN call.x_dtype ELSE call.ops[i - 1].dtype

\* C22: in mode half the downcast precedes the transform; in mode mixed the
\* transform and the centering shift see the activation at its own precision
\* and the downcast to complex32 follows them and precedes the contraction; in
\* mode full there is no downcast; out_fft is complex32 in modes half and
\* mixed and complex64 otherwise
PrecisionOrdering ==
    call.op = "forward precision" =>
        LET mode == call.fno_block_precision
            transform == OpIndex("transform")
            contract == OpIndex("contract")
        IN  /\ transform > 0 /\ contract = Len(call.ops)
            /\ (call.order > 1) <=> (OpIndex("fftshift") > 0)
            /\ mode = "half" =>
                   /\ OpIndex("half") = 1 /\ transform = 2
                   /\ DtypeBefore(transform) = "float16"
                   /\ OpIndex("chalf") = 0
                   /\ DtypeBefore(contract) = "complex32"
            /\ mode = "mixed" =>
                   /\ OpIndex("half") = 0
                   /\ DtypeBefore(transform) = call.x_dtype
                   /\ call.ops[transform].dtype = TransformDtype(call.x_dtype)
                   /\ OpIndex("chalf") = contract - 1
                   /\ OpIndex("chalf") > transform
                   /\ OpIndex("chalf") > OpIndex("fftshift")
                   /\ DtypeBefore(contract) = "complex32"
            /\ mode = "full" =>
                   /\ OpIndex("half") = 0 /\ OpIndex("chalf") = 0
                   /\ DtypeBefore(contract) = TransformDtype(call.x_dtype)
            /\ call.out_dtype = IF mode \in {"half", "mixed"} THEN "complex32" ELSE "complex64"

PrecisionOrderingWitness ==
    /\ call.op = "forward precision"
    /\ call.fno_block_precision = "mixed"
    /\ call.order = 2
    /\ call.x_dtype = "float32"
    /\ call.ops = <<Op("transform", "complex64"), Op("fftshift", "complex64"),
                    Op("chalf", "complex32"), Op("contract", "complex32")>>
    /\ call.out_dtype = "complex32"

\* C23 as stated: every function get_contract_fun returns computes with
\* einsum_complexhalf when the activation is complex32 and with the general
\* einsum otherwise
EveryContractionSpecialCased ==
    call.op = "contract precision" =>
        call.primitive = IF call.x_dtype = "complex32" THEN "einsum_complexhalf" ELSE "tl.einsum"

\* C23 (amended): _contract_dense, _contract_cp, _contract_tucker and
\* _contract_tt compute with einsum_complexhalf when the activation is
\* complex32 and with the general einsum otherwise; _contract_dense_separable
\* is an element-wise product for every dtype
EinsumContractionsSpecialCased ==
    call.op = "contract precision" =>
        /\ call.fun \in {"_contract_dense", "_contract_cp", "_contract_tucker", "_contract_tt"} =>
               call.primitive = IF call.x_dtype = "complex32" THEN "einsum_complexhalf"
                                ELSE "tl.einsum"
        /\ call.fun = "_contract_dense_separable" => call.primitive = "mul"
        /\ call.fun \in {"_contract_dense", "_contract_cp", "_contract_tucker", "_contract_tt",
                          "_contract_dense_separable"}

EinsumContractionsWitness ==
    /\ call.op = "contract precision"
    /\ call.fun = "_contract_tucker"
    /\ call.separable
    /\ call.x_dtype = "complex32"
    /\ call.primitive = "einsum_complexhalf"

\* the kind of a weight: "tensor" for a plain tensor, else the name of the
\* factorization without the prefix of complex weights; "" when unknown
WeightKind(weight) ==
    IF weight.class = "Tensor" THEN "tensor"
    ELSE IF weight.class # "FactorizedTensor" THEN ""
    ELSE CASE weight.name \in {StrDense, StrComplex \o StrDense} -> "dense"
           [] weight.name \in {StrTucker, StrComplex \o StrTucker} -> "tucker"
           [] weight.name \in {StrTT, StrComplex \o StrTT} -> "tt"
           [] weight.name \in {StrCP, StrComplex \o StrCP} -> "cp"
           [] OTHER -> ""

\* the dispatch table of the documentation
DispatchTable(weight, implementation, separable) ==
    IF implementation = "reconstructed"
    THEN IF separable THEN "_contract_dense_separable" ELSE "_contract_dense"
    ELSE CASE WeightKind(weight) \in {"tensor", "dense"} -> "_contract_dense"
           [] WeightKind(weight) = "tucker" -> "_contract_tucker"
           [] WeightKind(weight) = "tt" -> "_contract_tt"
           [] WeightKind(weight) = "cp" -> "_contract_cp"

\* C24: get_contract_fun follows the dispatch table for the two
\* implementations and the weight kinds tensor, dense, tucker, tt and cp; the
\* layer keeps the function chosen at construction, also after n_modes is
\* assigned, and every forward call contracts with it
ContractionDispatch ==
    /\ (/\ call.op = "get_contract_fun"
        /\ call.implementation \in {"reconstructed", "factorized"}
        /\ call.implementation = "factorized" => WeightKind(call.weight) # "") =>
           call.result = Returned(DispatchTable(call.weight, call.implementation, call.separable))
    /\ layer.constructed =>
           /\ WeightKind(layer.weight) \in {"dense", "tucker", "tt", "cp"}
           /\ layer.contract = DispatchTable(layer.weight, layer.implementation, layer.separable)
           /\ call.op = "forward" => call.contract = layer.contract

ContractionDispatchWitness ==
    /\ layer.constructed
    /\ layer.implementation = "factorized"
    /\ WeightKind(layer.weight) = "tt"
    /\ layer.n_modes = <<1, 1>>
    /\ call.op = "forward"
    /\ call.contract = "_contract_tt"

KnownKinds == {Lower(StrDense), Lower(StrTucker), Lower(StrTT), Lower(StrCP)}

\* C10 as stated: with implementation="factorized", a factorized weight whose
\* name is not one of dense, tucker, tt, cp is rejected with a ValueError naming
\* it, and a weight of another class with a ValueError naming its class
UnknownKindRejected ==
    (dispatch.called /\ dispatch.implementation = "factorized") =>
        /\ (dispatch.weight.class = "FactorizedTensor" /\ Lower(dispatch.weight.name) \notin KnownKinds) =>
               /\ dispatch.result.error = ValueError("unexpected factorized weight type", <<dispatch.weight.name>>)
               /\ dispatch.result.fun = ""
        /\ dispatch.weight.class \notin {"Tensor", "FactorizedTensor"} =>
               /\ dispatch.result.error = ValueError("unexpected weight type of class", <<dispatch.weight.class>>)
               /\ dispatch.result.fun = ""

\* C10 (amended): with implementation="factorized", a factorized weight whose
\* lower-cased name does not end with one of dense, tucker, tt, cp is rejected
\* with a ValueError naming it, and a weight of another class with a ValueError
\* naming its class; no function is returned in either case
UnknownSuffixRejected ==
    (dispatch.called /\ dispatch.implementation = "factorized") =>
        /\ (/\ dispatch.weight.class = "FactorizedTensor"
            /\ \A kind \in KnownKinds : ~EndsWith(Lower(dispatch.weight.name), kind)) =>
               /\ dispatch.result.error = ValueError("unexpected factorized weight type", <<dispatch.weight.name>>)
               /\ dispatch.result.fun = ""
        /\ dispatch.weight.class \notin {"Tensor", "FactorizedTensor"} =>
               /\ dispatch.result.error = ValueError("unexpected weight type of class", <<dispatch.weight.class>>)
               /\ dispatch.result.fun = ""

UnknownSuffixWitness ==
    /\ dispatch.called
    /\ dispatch.implementation = "factorized"
    /\ dispatch.weight.class = "FactorizedTensor"
    /\ dispatch.weight.name = StrMadeUp
    /\ dispatch.result.error = ValueError("unexpected factorized weight type", <<StrMadeUp>>)


(***************************************************************************)
(* Contracting one activation with one factorized weight, directly on the  *)
(* factors and after reconstruction.                                        *)
(***************************************************************************)
FactorizedKinds == {"tucker", "cp", "tt"}

SpatialShapes == UNION {[1 .. k -> Dims] : k \in 1 .. MaxAxes}

Contract(kind, separable, seed, batch, cin, cout, spatial, rank) ==
    LET wshape == IF separable THEN <<cin>> \o spatial ELSE <<cin, cout>> \o spatial
        x == Gen(seed, 9, <<batch, cin>> \o spatial)
        w == GenWeight(kind, seed, wshape, rank)
        factorized == get_contract_fun(w, "factorized", separable)
        reconstructed == get_contract_fun(w, "reconstructed", separable)
    IN  /\ ~ct.called
        /\ ct' = [called |-> TRUE, kind |-> kind, separable |-> separable,
                  x |-> x, weight |-> w, fun |-> factorized.fun,
                  direct |-> Call(factorized.fun, x, w, separable),
                  dense |-> _contract_dense(x, w, separable),
                  reconstructed |-> Call(reconstructed.fun, x, w, separable)]
        /\ UNCHANGED <<layer, ctor, call, dispatch, trainer>>

NextContract ==
    \/ \E kind \in FactorizedKinds, separable \in BOOLEAN, seed \in 1 .. MaxSeed,
          batch \in Dims, cin \in Dims, cout \in Dims, spatial \in SpatialShapes, rank \in Dims :
           Contract(kind, separable, seed, batch, cin, cout, spatial, rank)
    \/ \E separable \in BOOLEAN, seed \in 1 .. MaxSeed,
          batch \in Dims, cin \in Dims, cout \in Dims, spatial \in SpatialShapes :
           Contract("dense", separable, seed, batch, cin, cout, spatial, 1)

SpecContract == Init /\ [][NextContract]_vars

\* C7: whenever a Tucker, CP or TT weight has been contracted with an
\* activation, the contraction on the factors succeeded and its result is the
\* dense contraction of the same activation with the reconstructed weight
FactorizationEquivalence ==
    ct.called =>
        /\ ct.direct.ok
        /\ ct.dense.ok
        /\ ct.direct.t = ct.dense.t

\* sum over the input channels i .. n of x[b, i, modes] * w[i, o, modes]
RECURSIVE ChannelSum(_, _, _, _, _)
ChannelSum(x, w, t, i, n) ==
    IF i > n THEN 0
    ELSE x.val[<<t[1], i>> \o From(t, 2)] * w.val[<<i, t[2]>> \o From(t, 2)]
         + ChannelSum(x, w, t, i + 1, n)

\* C27: with a dense weight w, a separable contraction, by _contract_dense
\* and by _contract_dense_separable alike, is out[b, c, modes] =
\* x[b, c, modes] * w[c, modes] and has the shape of the activation; a
\* non-separable one is out[b, o, modes] = sum over i of
\* x[b, i, modes] * w[i, o, modes]
DenseContraction ==
    (ct.called /\ ct.kind = "dense") =>
        LET x == ct.x
            w == to_tensor(ct.weight)
        IN  IF ct.separable
            THEN /\ ct.fun = "_contract_dense"
                 /\ \A r \in {ct.dense, ct.reconstructed} :
                        /\ r.ok
                        /\ r.t.shape = x.shape
                        /\ \A t \in Box(x.shape) : r.t.val[t] = x.val[t] * w.val[From(t, 1)]
            ELSE /\ ct.dense.ok
                 /\ ct.dense.t.shape = <<x.shape[1], w.shape[2]>> \o From(x.shape, 2)
                 /\ \A t \in Box(ct.dense.t.shape) :
                        ct.dense.t.val[t] = ChannelSum(x, w, t, 1, x.shape[2])

DenseContractionWitness ==
    /\ ct.called
    /\ ct.kind = "dense"
    /\ ct.separable
    /\ ct.x.shape = <<2, 2, 2, 2>>
    /\ ct.weight.parts[1].shape = <<2, 2, 2>>
    /\ ct.reconstructed.ok
    /\ ct.reconstructed.t = ct.dense.t
    /\ \E t \in Box(ct.dense.t.shape) : ct.dense.t.val[t] # 0

\* a non-separable Tucker weight over two spatial axes has been contracted on
\* its factors with a two-channel activation, and the result is not all zero
FactorizationEquivalenceWitness ==
    /\ ct.called
    /\ ct.kind = "tucker"
    /\ ~ct.separable
    /\ ct.fun = "_contract_tucker"
    /\ ct.direct.ok
    /\ ct.x.shape = <<2, 2, 2, 2>>
    /\ ct.direct.t.shape = <<2, 2, 2, 2>>
    /\ \E t \in Box(ct.direct.t.shape) : ct.direct.t.val[t] # 0

====
